---- MODULE Spec2Model ----
(***************************************************************************)
(* Conversation engine and job orchestrator of the carousel bot             *)
(* (src/app/handlers/user_handlers.py, started by src/main.py).             *)
(*                                                                          *)
(* Every inbound event is handled by its own asynchronous task (spec.md     *)
(* section 5); a handler or a job runs without interruption between two     *)
(* awaits and may be interleaved with other handlers and jobs at an await.  *)
(* A coroutine that changes the shared dictionaries on both sides of an     *)
(* await is modelled as a frame with a position (pc); one action is one     *)
(* uninterrupted run of a coroutine from one await to the next.             *)
(*                                                                          *)
(* A Python dict is a TLA+ function whose DOMAIN is the set of keys.        *)
(***************************************************************************)
EXTENDS Integers, Sequences, FiniteSets, TLC

\* ------------------------------------------------------------------ bounds
\* largest valid slide count a user types in the explored behaviours
MaxCount == 3
\* largest number of coroutines (handlers suspended at an await, jobs) of one
\* user that are in flight at the same time
MaxInflight == 2
\* largest number of updates (commands, texts, photos) the bot receives in an
\* explored behaviour
MaxEvents == 4
\* largest number of updates in a behaviour of FlowSpec
MaxFlowEvents == 8
\* largest number of pieces (phrases, markers, tags, characters) a short post
\* text of TextSpec is put together from
MaxPieces == 4
\* the longest tip list of the structure generator
MaxTips == 6
\* the updates of one behaviour of LaterSpec
MaxLaterEvents == 6

\* ------------------------------------------------------- program constants
MinSlides == 2
MaxSlides == 20
ALLOWED_USER_IDS == {649760082, 617934115}

\* a sender that is not in the allow-list
Stranger == 1
Users == ALLOWED_USER_IDS \cup {Stranger}
\* the senders whose events are explored by Spec
Senders == {649760082, Stranger}

None == "None"
BgUrl == "https://bg"
ImgUrl == "https://img"

\* ------------------------------------------------------------ dict helpers
EmptyDict == [x \in {} |-> None]
Put(d, k, v) == [x \in (DOMAIN d) \cup {k} |-> IF x = k THEN v ELSE d[x]]
Del(d, k) == [x \in (DOMAIN d) \ {k} |-> d[x]]
Has(d, k) == k \in DOMAIN d

\* ------------------------------------------------------------------ inputs
BtnCarousel == "Karusel"
BtnInfographic == "Infografika"
BtnPost == "Napisat post"
ModeButtons == {BtnCarousel, BtnInfographic, BtnPost}
\* the numbers a user types: the valid counts, one below and one above range
NumInputs == (1 .. MaxCount) \cup {MaxSlides + 1}
IntTexts == {ToString(n) : n \in NumInputs}

\* text.lower().strip() on the modelled inputs
LowerStrip(text) == IF text = "Yes" THEN "yes" ELSE text
\* the ASCII members of the two vocabularies
IsYes(text) == LowerStrip(text) \in {"yes", "y"}
IsNo(text) == LowerStrip(text) \in {"no", "n"}
\* int(text.strip()): IsInt is FALSE where Python raises ValueError
IsInt(text) == \E n \in NumInputs : ToString(n) = text
IntOf(text) == CHOOSE n \in NumInputs : ToString(n) = text

\* ----------------------------------------------------------- access control
\* (variant: an allow-list that lets every sender in)
is_user_allowed_anyone(user_id) == TRUE
\* return user_id in ALLOWED_USER_IDS
is_user_allowed(user_id) == user_id \in ALLOWED_USER_IDS

\* ------------------------------------------------------------------- state
VARIABLES
  background_image2_url,
  tasks_queue,
  pending_requests,
  waiting_for_infographic,
  waiting_for_post,
  waiting_for_post_topic,
  carousel_data_storage,
  user_mode,
  regeneration_context,
  waiting_for_regenerate_decision,
  waiting_for_slide_number,
  waiting_for_edited_prompt,
  waiting_for_airtable_update,
  waiting_for_infographic_regenerate_decision,
  waiting_for_infographic_airtable_update,
  waiting_for_edited_infographic_prompt,
  waiting_for_post_regenerate_decision,
  waiting_for_post_airtable_update,
  frames,
  last,
  events,
  airtable

\* the awaiting maps of the slide / infographic / post regeneration flows
regenWaits == <<waiting_for_regenerate_decision, waiting_for_slide_number,
                waiting_for_edited_prompt, waiting_for_airtable_update,
                waiting_for_infographic_regenerate_decision,
                waiting_for_infographic_airtable_update,
                waiting_for_edited_infographic_prompt,
                waiting_for_post_regenerate_decision,
                waiting_for_post_airtable_update>>
\* the awaiting maps of the offers
offerWaits == <<waiting_for_infographic, waiting_for_post, waiting_for_post_topic>>
\* everything a user's session consists of, except the job handle
session == <<pending_requests, offerWaits, regenWaits, carousel_data_storage,
             user_mode, regeneration_context>>
\* airtable is the table of the record store: the fields of each record, by
\* record id
vars == <<background_image2_url, tasks_queue, session, frames, last, events, airtable>>

\* ---------------------------------------------------------------- snapshots
\* The handlers and jobs below are written as functions from the state before
\* an uninterrupted run to the state after it.  Cur is the current state as a
\* record (one field per global of user_handlers.py); overflow is set when a
\* run would need more than MaxInflight coroutines of one user.
Cur == [background_image2_url |-> background_image2_url,
        tasks_queue |-> tasks_queue,
        pending_requests |-> pending_requests,
        waiting_for_infographic |-> waiting_for_infographic,
        waiting_for_post |-> waiting_for_post,
        waiting_for_post_topic |-> waiting_for_post_topic,
        carousel_data_storage |-> carousel_data_storage,
        user_mode |-> user_mode,
        regeneration_context |-> regeneration_context,
        waiting_for_regenerate_decision |-> waiting_for_regenerate_decision,
        waiting_for_slide_number |-> waiting_for_slide_number,
        waiting_for_edited_prompt |-> waiting_for_edited_prompt,
        waiting_for_airtable_update |-> waiting_for_airtable_update,
        waiting_for_infographic_regenerate_decision |-> waiting_for_infographic_regenerate_decision,
        waiting_for_infographic_airtable_update |-> waiting_for_infographic_airtable_update,
        waiting_for_edited_infographic_prompt |-> waiting_for_edited_infographic_prompt,
        waiting_for_post_regenerate_decision |-> waiting_for_post_regenerate_decision,
        waiting_for_post_airtable_update |-> waiting_for_post_airtable_update,
        frames |-> frames,
        last |-> last,
        events |-> events,
        airtable |-> airtable,
        overflow |-> FALSE]

Apply(n) ==
  /\ ~n.overflow
  /\ background_image2_url' = n.background_image2_url
  /\ tasks_queue' = n.tasks_queue
  /\ pending_requests' = n.pending_requests
  /\ waiting_for_infographic' = n.waiting_for_infographic
  /\ waiting_for_post' = n.waiting_for_post
  /\ waiting_for_post_topic' = n.waiting_for_post_topic
  /\ carousel_data_storage' = n.carousel_data_storage
  /\ user_mode' = n.user_mode
  /\ regeneration_context' = n.regeneration_context
  /\ waiting_for_regenerate_decision' = n.waiting_for_regenerate_decision
  /\ waiting_for_slide_number' = n.waiting_for_slide_number
  /\ waiting_for_edited_prompt' = n.waiting_for_edited_prompt
  /\ waiting_for_airtable_update' = n.waiting_for_airtable_update
  /\ waiting_for_infographic_regenerate_decision' = n.waiting_for_infographic_regenerate_decision
  /\ waiting_for_infographic_airtable_update' = n.waiting_for_infographic_airtable_update
  /\ waiting_for_edited_infographic_prompt' = n.waiting_for_edited_infographic_prompt
  /\ waiting_for_post_regenerate_decision' = n.waiting_for_post_regenerate_decision
  /\ waiting_for_post_airtable_update' = n.waiting_for_post_airtable_update
  /\ frames' = n.frames
  /\ last' = n.last
  /\ events' = n.events
  /\ airtable' = n.airtable

\* ------------------------------------------------------------------ frames
Slots == 1 .. MaxInflight
NoFrame == [kind |-> "free", pc |-> "free", topic |-> None, image1_url |-> None,
            slides_count |-> 0, data |-> <<>>, slides |-> <<>>,
            slide_num |-> 0, prompt |-> None, image_input |-> None]
Frame(kind, pc) == [NoFrame EXCEPT !.kind = kind, !.pc = pc]
TaskKinds == {"carousel", "infographic", "infographic_standalone",
              "post", "post_standalone"}
FreeSlots(S, u) == {s \in Slots : S.frames[u][s].kind = "free"}
FreeSlot(S, u) == CHOOSE s \in FreeSlots(S, u) : \A t \in FreeSlots(S, u) : s <= t
\* a handler suspends at an await and resumes later: a new frame
AddFrame(S, u, f) ==
  IF FreeSlots(S, u) = {} THEN [S EXCEPT !.overflow = TRUE]
  ELSE [S EXCEPT !.frames[u][FreeSlot(S, u)] = f]
\* task = asyncio.create_task(...); tasks_queue[user_id] = task
CreateTask(S, u, f) ==
  IF FreeSlots(S, u) = {} THEN [S EXCEPT !.overflow = TRUE]
  ELSE [S EXCEPT !.frames[u][FreeSlot(S, u)] = f,
                 !.tasks_queue = Put(@, u, FreeSlot(S, u))]
\* (variant: an unresolved task of any user makes the sender busy)
Busy_any_user(S, u) ==
  \E v \in Users : /\ Has(S.tasks_queue, v)
                   /\ S.frames[v][S.tasks_queue[v]].pc # "done"
\* user_id in tasks_queue and not tasks_queue[user_id].done()
Busy(S, u) == /\ Has(S.tasks_queue, u)
              /\ S.frames[u][S.tasks_queue[u]].pc # "done"

\* last.attempts: the number of generation tasks a job step asked the image
\* backend to create
Said(u, ev, text, reply) ==
  [user |-> u, ev |-> ev, text |-> text, reply |-> reply, attempts |-> 0]
Reply(S, u, ev, text, reply) == [S EXCEPT !.last = Said(u, ev, text, reply)]
Attempted(S, n) == [S EXCEPT !.last.attempts = n]

\* settings.image_gen_max_retries
image_gen_max_retries == 2
\* max_retries of GeminiService.generate_json (its default, and the value the
\* jobs pass)
max_retries == 3
\* what the image backend answers to the first, second, ... generation task:
\* an image URL, a result without URL, an exception (failure or timeout)
AttemptAnswers == [1 .. image_gen_max_retries -> {"url", "empty", "error"}]

\* (variant: the loop does not stop at the first image URL)
RECURSIVE generate_attempts_no_break(_, _)
generate_attempts_no_break(answers, attempt) ==
  IF attempt > image_gen_max_retries
  THEN [image_url |-> IF \E k \in DOMAIN answers : answers[k] = "url" THEN ImgUrl ELSE None,
        attempts |-> image_gen_max_retries]
  ELSE generate_attempts_no_break(answers, attempt + 1)
\* for attempt in range(settings.image_gen_max_retries): a task is created and
\* awaited; the first image URL ends the loop
RECURSIVE generate_attempts(_, _)
generate_attempts(answers, attempt) ==
  IF attempt > image_gen_max_retries
  THEN [image_url |-> None, attempts |-> image_gen_max_retries]
  ELSE IF answers[attempt] = "url"
  THEN [image_url |-> ImgUrl, attempts |-> attempt]
  ELSE generate_attempts(answers, attempt + 1)

\* ------------------------------------------------------ regeneration context
\* regeneration_context[user_id] as generate_carousel initialises it; the keys
\* slides_data and slides_prompts always have the same slide numbers, so
\* slides_prompts stands for both (its value is the template that built it)
NewCarouselContext(topic, image1_url, slides_count, bg, carousel_data) ==
  [carousel |-> TRUE, carousel_data |-> carousel_data,
   slides_prompts |-> EmptyDict, slides_params |-> EmptyDict,
   slides_images |-> EmptyDict, image1_url |-> image1_url,
   background_image2_url |-> bg, slides_count |-> slides_count,
   topic |-> topic, airtable_record_id |-> None, infographic_prompt |-> None]
\* regeneration_context[user_id] = {} : no carousel keys (carousel = FALSE)
EmptyContext ==
  [carousel |-> FALSE, carousel_data |-> <<>>,
   slides_prompts |-> EmptyDict, slides_params |-> EmptyDict,
   slides_images |-> EmptyDict, image1_url |-> None,
   background_image2_url |-> None, slides_count |-> 0,
   topic |-> None, airtable_record_id |-> None, infographic_prompt |-> None]
\* regeneration_context.get(user_id, {}).get("airtable_record_id")
RecordIdOf(S, u) ==
  IF Has(S.regeneration_context, u) THEN S.regeneration_context[u].airtable_record_id
  ELSE None
\* regeneration_context[user_id]["slides_count"] does not raise KeyError
HasSlidesCount(S, u) ==
  Has(S.regeneration_context, u) /\ S.regeneration_context[u].carousel

Init ==
  /\ background_image2_url \in {None, BgUrl}
  /\ tasks_queue = EmptyDict
  /\ airtable = EmptyDict
  /\ pending_requests = EmptyDict
  /\ waiting_for_infographic = EmptyDict
  /\ waiting_for_post = EmptyDict
  /\ waiting_for_post_topic = EmptyDict
  /\ carousel_data_storage = EmptyDict
  /\ user_mode = EmptyDict
  /\ regeneration_context = EmptyDict
  /\ waiting_for_regenerate_decision = EmptyDict
  /\ waiting_for_slide_number = EmptyDict
  /\ waiting_for_edited_prompt = EmptyDict
  /\ waiting_for_airtable_update = EmptyDict
  /\ waiting_for_infographic_regenerate_decision = EmptyDict
  /\ waiting_for_infographic_airtable_update = EmptyDict
  /\ waiting_for_edited_infographic_prompt = EmptyDict
  /\ waiting_for_post_regenerate_decision = EmptyDict
  /\ waiting_for_post_airtable_update = EmptyDict
  /\ frames = [u \in Users |-> [s \in Slots |-> NoFrame]]
  /\ last = Said(Stranger, "init", None, None)
  /\ events = 0

\* ---------------------------------------------------------------- commands
\* every entry point, when the sender is not in the allow-list
send_access_denied_message(S, u, ev, text) == Reply(S, u, ev, text, "access_denied")

start_command(S, u) ==
  IF ~is_user_allowed(u) THEN send_access_denied_message(S, u, "start", None)
  ELSE Reply(S, u, "start", None, "welcome")

help_command(S, u) ==
  IF ~is_user_allowed(u) THEN send_access_denied_message(S, u, "help", None)
  ELSE Reply(S, u, "help", None, "help")

set_background_urls(S, url2) == [S EXCEPT !.background_image2_url = url2]

\* outcome: the image file is missing ("no_file"), the upload raises
\* ("error"), or it yields a URL ("ok")
upload_backgrounds_command(S, u, outcome) ==
  IF ~is_user_allowed(u) THEN send_access_denied_message(S, u, "upload_backgrounds", None)
  ELSE IF outcome = "no_file" THEN Reply(S, u, "upload_backgrounds", None, "file_not_found")
  ELSE IF outcome = "error" THEN Reply(S, u, "upload_backgrounds", None, "upload_error")
  ELSE Reply(set_background_urls(S, BgUrl), u, "upload_backgrounds", None, "background_updated")

\* ------------------------------------------------------- handle_message
\* outcome of a read from the record store in the "+" branches: the prompt is
\* read, the field is empty, or the store is not configured / raises
AirtableReads == {"prompt", "no_prompt", "error"}
EditedPrompt == "edited"

\* (variant: a no ends the conversation instead of offering the infographic)
regenerate_decision_no_ends(S, u, text) ==
  IF IsYes(text)
  THEN LET S1 == [S EXCEPT !.waiting_for_regenerate_decision = Del(@, u),
                           !.waiting_for_slide_number = Put(@, u, TRUE)]
       IN IF HasSlidesCount(S, u) THEN Reply(S1, u, "text", text, "ask_slide_number")
          ELSE Reply(S1, u, "text", text, "KeyError")
  ELSE IF IsNo(text)
  THEN Reply([S EXCEPT !.waiting_for_regenerate_decision = Del(@, u)],
             u, "text", text, "ok_no_more")
  ELSE Reply(S, u, "text", text, "yes_or_no")
\* if user_id in waiting_for_regenerate_decision
regenerate_decision(S, u, text) ==
  IF IsYes(text)
  THEN LET S1 == [S EXCEPT !.waiting_for_regenerate_decision = Del(@, u),
                           !.waiting_for_slide_number = Put(@, u, TRUE)]
       IN IF HasSlidesCount(S, u) THEN Reply(S1, u, "text", text, "ask_slide_number")
          ELSE Reply(S1, u, "text", text, "KeyError")
  ELSE IF IsNo(text)
  THEN LET S1 == [S EXCEPT !.waiting_for_regenerate_decision = Del(@, u)]
       IN IF Has(S.regeneration_context, u)
          THEN Reply([S1 EXCEPT !.waiting_for_infographic =
                                   Put(@, u, S.regeneration_context[u].topic)],
                     u, "text", text, "offer_infographic")
          ELSE Reply(S1, u, "text", text, "KeyError")
  ELSE Reply(S, u, "text", text, "yes_or_no")

\* (variant: the slide number is checked against the lower limit only)
slide_number_no_upper(S, u, text) ==
  IF ~IsInt(text) THEN Reply(S, u, "text", text, "need_digit")
  ELSE IF ~HasSlidesCount(S, u) THEN Reply(S, u, "text", text, "KeyError")
  ELSE IF IntOf(text) < 1
  THEN Reply(S, u, "text", text, "slide_number_out_of_range")
  ELSE IF RecordIdOf(S, u) = None
  THEN Reply([S EXCEPT !.waiting_for_slide_number = Del(@, u)],
             u, "text", text, "no_record_id")
  ELSE Reply([S EXCEPT !.waiting_for_slide_number = Del(@, u),
                       !.waiting_for_airtable_update = Put(@, u, IntOf(text))],
             u, "text", text, "edit_in_airtable")
\* if user_id in waiting_for_slide_number
slide_number(S, u, text) ==
  IF ~IsInt(text) THEN Reply(S, u, "text", text, "need_digit")
  ELSE IF ~HasSlidesCount(S, u) THEN Reply(S, u, "text", text, "KeyError")
  ELSE IF IntOf(text) < 1 \/ IntOf(text) > S.regeneration_context[u].slides_count
  THEN Reply(S, u, "text", text, "slide_number_out_of_range")
  ELSE IF RecordIdOf(S, u) = None
  THEN Reply([S EXCEPT !.waiting_for_slide_number = Del(@, u)],
             u, "text", text, "no_record_id")
  ELSE Reply([S EXCEPT !.waiting_for_slide_number = Del(@, u),
                       !.waiting_for_airtable_update = Put(@, u, IntOf(text))],
             u, "text", text, "edit_in_airtable")

\* (variant: the parameters cached for slide 1 are used for every slide)
regenerate_slide_begin_first_slide_params(S, u, text, kind, slide_num, prompt) ==
  IF ~Has(S.regeneration_context, u)
  THEN Reply(S, u, "text", text, "no_context")
  ELSE IF ~Has(S.regeneration_context[u].slides_params, slide_num)
          \/ ~Has(S.regeneration_context[u].slides_params, 1)
  THEN Reply(S, u, "text", text, "no_slide_params")
  ELSE Reply(AddFrame(S, u,
               [Frame(kind, "begin") EXCEPT
                  !.slide_num = slide_num,
                  !.prompt = prompt,
                  !.image_input = S.regeneration_context[u].slides_params[1],
                  !.slides_count = S.regeneration_context[u].slides_count]),
             u, "text", text, "regenerating_slide")
\* regenerate_slide and regenerate_slide_from_airtable up to their first
\* await: the cached parameters of the slide are read from the context
regenerate_slide_begin(S, u, text, kind, slide_num, prompt) ==
  IF ~Has(S.regeneration_context, u)
  THEN Reply(S, u, "text", text, "no_context")
  ELSE IF ~Has(S.regeneration_context[u].slides_params, slide_num)
  THEN Reply(S, u, "text", text, "no_slide_params")
  ELSE Reply(AddFrame(S, u,
               [Frame(kind, "begin") EXCEPT
                  !.slide_num = slide_num,
                  !.prompt = prompt,
                  !.image_input = S.regeneration_context[u].slides_params[slide_num],
                  !.slides_count = S.regeneration_context[u].slides_count]),
             u, "text", text, "regenerating_slide")

regenerate_slide_from_airtable(S, u, text, slide_num) ==
  regenerate_slide_begin(S, u, text, "regenerate_slide_from_airtable", slide_num, EditedPrompt)

\* if user_id in waiting_for_airtable_update
airtable_update(S, u, text, out) ==
  IF text = "+"
  THEN LET slide_num == S.waiting_for_airtable_update[u]
           S1 == [S EXCEPT !.waiting_for_airtable_update = Del(@, u)]
       IN IF ~Has(S.regeneration_context, u) THEN Reply(S1, u, "text", text, "KeyError")
          ELSE IF RecordIdOf(S, u) = None THEN Reply(S1, u, "text", text, "no_record_id")
          ELSE IF out = "no_prompt" THEN Reply(S1, u, "text", text, "no_prompt")
          ELSE IF out = "error" THEN Reply(S1, u, "text", text, "airtable_error")
          ELSE regenerate_slide_from_airtable(S1, u, text, slide_num)
  ELSE Reply(S, u, "text", text, "need_plus")

\* if user_id in waiting_for_edited_prompt (no code ever adds a user to the
\* map, so the branch is dead): regenerate_slide runs with the typed prompt
edited_prompt(S, u, text) ==
  regenerate_slide_begin([S EXCEPT !.waiting_for_edited_prompt = Del(@, u)], u, text,
                         "regenerate_slide", S.waiting_for_edited_prompt[u], text)

\* if user_id in waiting_for_infographic_regenerate_decision
infographic_regenerate_decision(S, u, text) ==
  IF IsYes(text)
  THEN LET S1 == [S EXCEPT !.waiting_for_infographic_regenerate_decision = Del(@, u)]
       IN IF RecordIdOf(S, u) # None
          THEN Reply([S1 EXCEPT !.waiting_for_infographic_airtable_update = Put(@, u, TRUE)],
                     u, "text", text, "edit_in_airtable")
          ELSE IF ~Has(S.regeneration_context, u)
                  \/ S.regeneration_context[u].infographic_prompt = None
          THEN Reply(S1, u, "text", text, "no_infographic_prompt")
          ELSE Reply([S1 EXCEPT !.waiting_for_edited_infographic_prompt = Put(@, u, TRUE)],
                     u, "text", text, "send_edited_prompt")
  ELSE IF IsNo(text)
  THEN LET S1 == [S EXCEPT !.waiting_for_infographic_regenerate_decision = Del(@, u)]
           topic == IF Has(S.regeneration_context, u)
                    THEN S.regeneration_context[u].topic ELSE None
       IN IF Has(S.carousel_data_storage, u)
          THEN Reply([S1 EXCEPT !.waiting_for_post =
                        Put(@, u, [topic |-> topic,
                                   carousel_data |-> S.carousel_data_storage[u]])],
                     u, "text", text, "offer_post")
          ELSE Reply(S1, u, "text", text, "ok_no_more")
  ELSE Reply(S, u, "text", text, "yes_or_no")

\* if user_id in waiting_for_edited_infographic_prompt
edited_infographic_prompt(S, u, text) ==
  LET S1 == [S EXCEPT !.waiting_for_edited_infographic_prompt = Del(@, u)]
  IN IF ~Has(S.regeneration_context, u)
        \/ S.regeneration_context[u].infographic_prompt = None
     THEN Reply(S1, u, "text", text, "no_infographic_params")
     ELSE Reply(AddFrame(S1, u, [Frame("regenerate_infographic_inline", "gen")
                                   EXCEPT !.prompt = text]),
                u, "text", text, "regenerating_infographic")

\* if user_id in waiting_for_infographic_airtable_update
infographic_airtable_update(S, u, text, out) ==
  IF text = "+"
  THEN LET S1 == [S EXCEPT !.waiting_for_infographic_airtable_update = Del(@, u)]
       IN IF RecordIdOf(S, u) = None THEN Reply(S1, u, "text", text, "no_record_id")
          ELSE IF out = "no_prompt" THEN Reply(S1, u, "text", text, "no_prompt")
          ELSE IF out = "error" THEN Reply(S1, u, "text", text, "airtable_error")
          ELSE Reply(AddFrame(S1, u, [Frame("regenerate_infographic_from_airtable", "gen")
                                        EXCEPT !.prompt = EditedPrompt]),
                     u, "text", text, "regenerating_infographic")
  ELSE Reply(S, u, "text", text, "need_plus")

\* if user_id in waiting_for_post_regenerate_decision
post_regenerate_decision(S, u, text) ==
  IF IsYes(text)
  THEN LET S1 == [S EXCEPT !.waiting_for_post_regenerate_decision = Del(@, u),
                           !.waiting_for_post_airtable_update = Put(@, u, TRUE)]
       IN IF RecordIdOf(S, u) = None THEN Reply(S1, u, "text", text, "no_record_id")
          ELSE Reply(S1, u, "text", text, "edit_in_airtable")
  ELSE IF IsNo(text)
  THEN Reply([S EXCEPT !.waiting_for_post_regenerate_decision = Del(@, u)],
             u, "text", text, "ok_no_more")
  ELSE Reply(S, u, "text", text, "yes_or_no")

\* if user_id in waiting_for_post_airtable_update
post_airtable_update(S, u, text, out) ==
  IF text = "+"
  THEN LET S1 == [S EXCEPT !.waiting_for_post_airtable_update = Del(@, u)]
       IN IF RecordIdOf(S, u) = None THEN Reply(S1, u, "text", text, "no_record_id")
          ELSE IF out = "no_prompt" THEN Reply(S1, u, "text", text, "no_post_text")
          ELSE IF out = "error" THEN Reply(S1, u, "text", text, "airtable_error")
          ELSE Reply(S1, u, "text", text, "post_updated")
  ELSE Reply(S, u, "text", text, "need_plus")

\* (variant: a no ends the conversation even when carousel data is stored)
infographic_offer_no_skips_post(S, u, text) ==
  LET topic == S.waiting_for_infographic[u]
      S1 == [S EXCEPT !.waiting_for_infographic = Del(@, u)]
  IN IF IsYes(text)
     THEN Reply(AddFrame(S1, u, [Frame("infographic", "reply") EXCEPT !.topic = topic]),
                u, "text", text, "generating_infographic")
     ELSE IF IsNo(text)
     THEN Reply(S1, u, "text", text, "ok_no_more")
     ELSE Reply(AddFrame(S1, u, [Frame("reput_infographic", "reply") EXCEPT !.topic = topic]),
                u, "text", text, "yes_or_no")
\* if user_id in waiting_for_infographic: the topic is popped first; the
\* task is created, or the topic is put back, only after the reply is sent
\* (variant: the popped topic is not put back after an unrecognised answer)
infographic_offer_no_reput(S, u, text) ==
  LET topic == S.waiting_for_infographic[u]
      S1 == [S EXCEPT !.waiting_for_infographic = Del(@, u)]
  IN IF IsYes(text)
     THEN Reply(AddFrame(S1, u, [Frame("infographic", "reply") EXCEPT !.topic = topic]),
                u, "text", text, "generating_infographic")
     ELSE IF IsNo(text)
     THEN IF Has(S.carousel_data_storage, u)
          THEN Reply([S1 EXCEPT !.waiting_for_post =
                        Put(@, u, [topic |-> topic,
                                   carousel_data |-> S.carousel_data_storage[u]])],
                     u, "text", text, "offer_post")
          ELSE Reply(S1, u, "text", text, "ok_no_more")
     ELSE Reply(S1, u, "text", text, "yes_or_no")
infographic_offer(S, u, text) ==
  LET topic == S.waiting_for_infographic[u]
      S1 == [S EXCEPT !.waiting_for_infographic = Del(@, u)]
  IN IF IsYes(text)
     THEN Reply(AddFrame(S1, u, [Frame("infographic", "reply") EXCEPT !.topic = topic]),
                u, "text", text, "generating_infographic")
     ELSE IF IsNo(text)
     THEN IF Has(S.carousel_data_storage, u)
          THEN Reply([S1 EXCEPT !.waiting_for_post =
                        Put(@, u, [topic |-> topic,
                                   carousel_data |-> S.carousel_data_storage[u]])],
                     u, "text", text, "offer_post")
          ELSE Reply(S1, u, "text", text, "ok_no_more")
     ELSE Reply(AddFrame(S1, u, [Frame("reput_infographic", "reply") EXCEPT !.topic = topic]),
                u, "text", text, "yes_or_no")

\* (variant: a no leaves the stored carousel data where it is)
post_offer_no_keeps_data(S, u, text) ==
  LET data == S.waiting_for_post[u]
      S1 == [S EXCEPT !.waiting_for_post = Del(@, u)]
  IN IF IsYes(text)
     THEN Reply(AddFrame(S1, u, [Frame("post", "reply") EXCEPT
                                   !.topic = data.topic, !.data = data.carousel_data]),
                u, "text", text, "generating_post")
     ELSE IF IsNo(text)
     THEN Reply(S1, u, "text", text, "ok_no_more")
     ELSE Reply(AddFrame(S1, u, [Frame("reput_post", "reply") EXCEPT
                                   !.topic = data.topic, !.data = data.carousel_data]),
                u, "text", text, "yes_or_no")
\* if user_id in waiting_for_post
post_offer(S, u, text) ==
  LET data == S.waiting_for_post[u]
      S1 == [S EXCEPT !.waiting_for_post = Del(@, u)]
  IN IF IsYes(text)
     THEN Reply(AddFrame(S1, u, [Frame("post", "reply") EXCEPT
                                   !.topic = data.topic, !.data = data.carousel_data]),
                u, "text", text, "generating_post")
     ELSE IF IsNo(text)
     THEN Reply(AddFrame(S1, u, Frame("post_declined", "reply")),
                u, "text", text, "ok_no_more")
     ELSE Reply(AddFrame(S1, u, [Frame("reput_post", "reply") EXCEPT
                                   !.topic = data.topic, !.data = data.carousel_data]),
                u, "text", text, "yes_or_no")

\* if user_id in waiting_for_post_topic
post_topic(S, u, text) ==
  Reply(CreateTask([S EXCEPT !.waiting_for_post_topic = Del(@, u)], u,
                   [Frame("post_standalone", "run") EXCEPT !.topic = text]),
        u, "text", text, "generating_post")

\* mode == "infographic"
infographic_mode(S, u, text) ==
  Reply(CreateTask(S, u, [Frame("infographic_standalone", "run") EXCEPT !.topic = text]),
        u, "text", text, "generating_infographic")

\* if not background_image2_url
\* (variant: the background is never looked at)
background_missing_never(S) == FALSE
background_missing(S) == S.background_image2_url = None

\* the slide count is awaited: pending_requests[user_id] has an image and no count
\* (variant: any pending request counts, with or without an image)
AwaitsSlideCount_any_pending(S, u) == Has(S.pending_requests, u)
AwaitsSlideCount(S, u) ==
  /\ Has(S.pending_requests, u)
  /\ S.pending_requests[u].image1_url # None
  /\ S.pending_requests[u].slides_count = None

\* (variant: no upper limit)
slides_count_valid_no_upper(n) == ~(n < MinSlides)
\* not (slides_count < 2 or slides_count > 20)
slides_count_valid(n) == ~(n < MinSlides \/ n > MaxSlides)

\* (variant: the request stays in pending_requests when the count is accepted)
slide_count_keep_pending(S, u, text) ==
  IF ~IsInt(text) THEN Reply(S, u, "text", text, "need_number")
  ELSE IF ~slides_count_valid(IntOf(text))
  THEN Reply(S, u, "text", text, "count_out_of_range")
  ELSE Reply(AddFrame(S, u,
                      [Frame("carousel", "reply") EXCEPT
                         !.topic = S.pending_requests[u].topic,
                         !.image1_url = S.pending_requests[u].image1_url,
                         !.slides_count = IntOf(text)]),
             u, "text", text, "count_accepted")
\* the slide count branch: the request leaves pending_requests before the
\* reply is sent, the task is created after it
slide_count(S, u, text) ==
  IF ~IsInt(text) THEN Reply(S, u, "text", text, "need_number")
  ELSE IF ~slides_count_valid(IntOf(text))
  THEN Reply(S, u, "text", text, "count_out_of_range")
  ELSE Reply(AddFrame([S EXCEPT !.pending_requests = Del(@, u)], u,
                      [Frame("carousel", "reply") EXCEPT
                         !.topic = S.pending_requests[u].topic,
                         !.image1_url = S.pending_requests[u].image1_url,
                         !.slides_count = IntOf(text)]),
             u, "text", text, "count_accepted")

\* (variant: a text does not replace a topic that is already pending)
new_topic_rejected(S, u, text) ==
  IF Has(S.pending_requests, u) THEN Reply(S, u, "text", text, "topic_accepted")
  ELSE Reply([S EXCEPT !.pending_requests =
                 Put(@, u, [topic |-> text, image1_url |-> None, slides_count |-> None])],
             u, "text", text, "topic_accepted")
\* anything else is a new topic
new_topic(S, u, text) ==
  Reply([S EXCEPT !.pending_requests =
            Put(@, u, [topic |-> text, image1_url |-> None, slides_count |-> None])],
        u, "text", text, "topic_accepted")

handle_message(S, u, text, out) ==
  IF ~is_user_allowed(u) THEN send_access_denied_message(S, u, "text", text)
  ELSE IF text = BtnCarousel
  THEN Reply([S EXCEPT !.user_mode = Put(@, u, "carousel")], u, "text", text, "mode_carousel")
  ELSE IF text = BtnInfographic
  THEN Reply([S EXCEPT !.user_mode = Put(@, u, "infographic")], u, "text", text, "mode_infographic")
  ELSE IF text = BtnPost
  THEN Reply([S EXCEPT !.waiting_for_post_topic = Put(@, u, TRUE)], u, "text", text, "mode_post")
  ELSE IF Has(S.waiting_for_regenerate_decision, u) THEN regenerate_decision(S, u, text)
  ELSE IF Has(S.waiting_for_slide_number, u) THEN slide_number(S, u, text)
  ELSE IF Has(S.waiting_for_airtable_update, u) THEN airtable_update(S, u, text, out)
  ELSE IF Has(S.waiting_for_edited_prompt, u) THEN edited_prompt(S, u, text)
  ELSE IF Has(S.waiting_for_infographic_regenerate_decision, u)
  THEN infographic_regenerate_decision(S, u, text)
  ELSE IF Has(S.waiting_for_edited_infographic_prompt, u)
  THEN edited_infographic_prompt(S, u, text)
  ELSE IF Has(S.waiting_for_infographic_airtable_update, u)
  THEN infographic_airtable_update(S, u, text, out)
  ELSE IF Has(S.waiting_for_post_regenerate_decision, u)
  THEN post_regenerate_decision(S, u, text)
  ELSE IF Has(S.waiting_for_post_airtable_update, u)
  THEN post_airtable_update(S, u, text, out)
  ELSE IF Has(S.waiting_for_infographic, u) THEN infographic_offer(S, u, text)
  ELSE IF Has(S.waiting_for_post, u) THEN post_offer(S, u, text)
  ELSE IF Has(S.waiting_for_post_topic, u) THEN post_topic(S, u, text)
  ELSE IF background_missing(S)
  THEN Reply(S, u, "text", text, "not_configured")
  ELSE IF Busy(S, u) THEN Reply(S, u, "text", text, "busy")
  ELSE IF Has(S.user_mode, u) /\ S.user_mode[u] = "infographic"
  THEN infographic_mode(S, u, text)
  ELSE IF AwaitsSlideCount(S, u) THEN slide_count(S, u, text)
  ELSE new_topic(S, u, text)

\* --------------------------------------------------------- handle_photo
\* up to the await of get_file
handle_photo(S, u) ==
  IF ~is_user_allowed(u) THEN send_access_denied_message(S, u, "photo", None)
  ELSE IF ~Has(S.pending_requests, u) THEN Reply(S, u, "photo", None, "topic_first")
  ELSE IF background_missing(S) THEN Reply(S, u, "photo", None, "not_configured")
  ELSE IF Busy(S, u) THEN Reply(S, u, "photo", None, "busy")
  ELSE Reply(AddFrame(S, u, Frame("handle_photo", "get_file")),
             u, "photo", None, "getting_file")

\* get_file returned a URL, returned an invalid URL, or raised
PhotoOutcomes == {"url", "invalid", "error"}
handle_photo_resume(S, u, s, out) ==
  LET S1 == [S EXCEPT !.frames[u][s] = NoFrame]
      dropped == [S1 EXCEPT !.pending_requests = Del(@, u)]
  IN IF out = "invalid" THEN Reply(dropped, u, "photo_done", None, "invalid_url")
     ELSE IF out = "error" \/ ~Has(S.pending_requests, u)
     THEN Reply(dropped, u, "photo_done", None, "photo_error")
     ELSE Reply([S1 EXCEPT !.pending_requests[u].image1_url = ImgUrl],
                u, "photo_done", None, "ask_slide_count")

\* ------------------------------------------------ handlers after the reply
\* the handler resumes after reply_text: the task is created and stored in
\* tasks_queue, or the popped value is put back, or carousel data is cleared
after_reply(S, u, s) ==
  LET f == S.frames[u][s]
      S1 == [S EXCEPT !.frames[u][s] = NoFrame]
  IN IF f.kind \in TaskKinds
     THEN Reply([S EXCEPT !.frames[u][s].pc = IF f.kind = "carousel" THEN "start" ELSE "run",
                          !.tasks_queue = Put(@, u, s)],
                u, "create_task", None, None)
     ELSE IF f.kind = "reput_infographic"
     THEN Reply([S1 EXCEPT !.waiting_for_infographic = Put(@, u, f.topic)],
                u, "reput", None, None)
     ELSE IF f.kind = "reput_post"
     THEN Reply([S1 EXCEPT !.waiting_for_post =
                    Put(@, u, [topic |-> f.topic, carousel_data |-> f.data])],
                u, "reput", None, None)
     ELSE Reply([S1 EXCEPT !.carousel_data_storage = Del(@, u)],
                u, "post_declined", None, None)

\* the handler that awaited the task resumes: finally: del tasks_queue[user_id]
\* (and, after a post job, del carousel_data_storage[user_id])
task_done(S, u, s) ==
  LET S1 == [S EXCEPT !.frames[u][s] = NoFrame, !.tasks_queue = Del(@, u)]
  IN IF S.frames[u][s].kind = "post"
     THEN Reply([S1 EXCEPT !.carousel_data_storage = Del(@, u)], u, "finally", None, None)
     ELSE Reply(S1, u, "finally", None, None)

\* ----------------------------------------------------- generate_carousel
\* the slides lists the structure generator answers with for a request of n
\* slides: the list 1..n, a list that is one slide short, one slide long
WellFormed(n) == [i \in 1 .. n |-> i]
\* a parsed document that is not an object (json.loads answers a list, a
\* string or a number as it is): it has no key to read, coded as the list <<0>>
NotAnObject == <<0>>
\* the generator fails (exception or empty document), or returns a document:
\* an object with its slides list, or a document that is not an object
GeminiOutcomes(n) == {[ok |-> FALSE, slides |-> <<>>]}
                     \cup {[ok |-> TRUE, slides |-> l] : l \in {WellFormed(n), WellFormed(n - 1), WellFormed(n + 1), <<>>}}
                     \cup {[ok |-> TRUE, slides |-> NotAnObject]}
CarouselData(topic, slides) == [topic |-> topic, slides |-> slides]
RecordId(topic) == "rec_" \o topic

\* the old regeneration context is dropped, then generate_json is awaited
carousel_start(S, u, s) ==
  Reply([S EXCEPT !.regeneration_context = Del(@, u), !.frames[u][s].pc = "gemini"],
        u, "job", None, None)

\* generate_json returned: the context of the new job is initialised
\* (variant: an empty slides list is not rejected; the loop runs zero times)
carousel_structure_accepts_no_slides(S, u, s, out) ==
  LET f == S.frames[u][s]
  IN IF ~out.ok
     THEN Reply([S EXCEPT !.frames[u][s].pc = "done"], u, "job", None, "gemini_failed")
     ELSE IF out.slides = NotAnObject
     THEN Reply([S EXCEPT !.frames[u][s].pc = "done", !.frames[u][s].data = NotAnObject],
                u, "job", None, "structure_ready")
     ELSE Reply([S EXCEPT !.frames[u][s].pc = IF out.slides = <<>> THEN "finish" ELSE "slides",
                          !.frames[u][s].slides = out.slides,
                          !.frames[u][s].data = out.slides,
                          !.regeneration_context =
                             Put(@, u, NewCarouselContext(f.topic, f.image1_url,
                                    f.slides_count, S.background_image2_url,
                                    CarouselData(f.topic, out.slides)))],
                u, "job", None, "structure_ready")
carousel_structure(S, u, s, out) ==
  LET f == S.frames[u][s]
  IN IF ~out.ok
     THEN Reply([S EXCEPT !.frames[u][s].pc = "done"], u, "job", None, "gemini_failed")
     ELSE IF out.slides = NotAnObject
     THEN Reply([S EXCEPT !.frames[u][s].pc = "done", !.frames[u][s].data = NotAnObject],
                u, "job", None, "structure_ready")
     ELSE IF out.slides = <<>>
     THEN Reply([S EXCEPT !.frames[u][s].pc = "done"], u, "job", None, "no_slides")
     ELSE Reply([S EXCEPT !.frames[u][s].pc = "slides",
                          !.frames[u][s].slides = out.slides,
                          !.frames[u][s].data = out.slides,
                          !.regeneration_context =
                             Put(@, u, NewCarouselContext(f.topic, f.image1_url,
                                    f.slides_count, S.background_image2_url,
                                    CarouselData(f.topic, out.slides)))],
                u, "job", None, "structure_ready")

\* (variant: the off-by-one upper bound, which builds slide N as an interior slide)
SlideTemplate_last_as_interior(slide_num, slides_count) ==
  IF slide_num = 1 THEN "slide1"
  ELSE IF 2 <= slide_num /\ slide_num <= slides_count THEN "slides_2_7"
  ELSE "skip"

\* the template a slide is built with, by its number; "skip" is the else: continue
SlideTemplate(slide_num, slides_count) ==
  IF slide_num = 1 THEN "slide1"
  ELSE IF 2 <= slide_num /\ slide_num < slides_count THEN "slides_2_7"
  ELSE IF slide_num = slides_count THEN "slide8"
  ELSE "skip"
\* (variant: the background is passed on without looking at the probe)
SlideImageInput_ignores_probe(slide_num, image1_url, bg, probe) ==
  IF slide_num = 1 THEN image1_url
  ELSE IF bg # None THEN bg
  ELSE None
\* the reference image of a slide: the user's photo for slide 1, the shared
\* background for the others if the probe (check_url_availability) succeeds
SlideImageInput(slide_num, image1_url, bg, probe) ==
  IF slide_num = 1 THEN image1_url
  ELSE IF bg # None /\ probe THEN bg
  ELSE None

\* one iteration of "for slide in slides"; out.probe is the reachability probe
\* of the background, out.answers the answers of the image backend
SlideOutcomes == [probe : BOOLEAN, answers : AttemptAnswers]
\* (variant: a slide whose every attempt failed ends the job)
carousel_slide_abort_on_failure(S, u, s, out) ==
  LET f == S.frames[u][s]
      slide_num == Head(f.slides)
      tpl == SlideTemplate(slide_num, f.slides_count)
      img == SlideImageInput(slide_num, f.image1_url, S.background_image2_url, out.probe)
      gen == generate_attempts(out.answers, 1)
      S1 == [S EXCEPT !.frames[u][s].slides = Tail(f.slides),
                      !.frames[u][s].pc = IF Tail(f.slides) = <<>> THEN "finish" ELSE "slides"]
  IN IF tpl = "skip" THEN Reply(S1, u, "job", None, "slide_skipped")
     ELSE IF ~HasSlidesCount(S, u) THEN Reply(S1, u, "job", None, "slide_error")
     ELSE IF gen.image_url # None
     THEN Attempted(
            Reply([S1 EXCEPT !.regeneration_context[u].slides_prompts = Put(@, slide_num, tpl),
                             !.regeneration_context[u].slides_params = Put(@, slide_num, img),
                             !.regeneration_context[u].slides_images =
                                Put(@, slide_num, gen.image_url)],
                  u, "job", None, "slide_sent"),
            gen.attempts)
     ELSE Attempted(
            Reply([S EXCEPT !.frames[u][s].pc = "done",
                            !.regeneration_context[u].slides_prompts = Put(@, slide_num, tpl),
                            !.regeneration_context[u].slides_params = Put(@, slide_num, img)],
                  u, "job", None, "slide_failed"),
            gen.attempts)
carousel_slide(S, u, s, out) ==
  LET f == S.frames[u][s]
      slide_num == Head(f.slides)
      tpl == SlideTemplate(slide_num, f.slides_count)
      img == SlideImageInput(slide_num, f.image1_url, S.background_image2_url, out.probe)
      gen == generate_attempts(out.answers, 1)
      S1 == [S EXCEPT !.frames[u][s].slides = Tail(f.slides),
                      !.frames[u][s].pc = IF Tail(f.slides) = <<>> THEN "finish" ELSE "slides"]
  IN IF tpl = "skip" THEN Reply(S1, u, "job", None, "slide_skipped")
     ELSE IF ~HasSlidesCount(S, u) THEN Reply(S1, u, "job", None, "slide_error")
     ELSE IF gen.image_url # None
     THEN Attempted(
            Reply([S1 EXCEPT !.regeneration_context[u].slides_prompts = Put(@, slide_num, tpl),
                             !.regeneration_context[u].slides_params = Put(@, slide_num, img),
                             !.regeneration_context[u].slides_images =
                                Put(@, slide_num, gen.image_url)],
                  u, "job", None, "slide_sent"),
            gen.attempts)
     ELSE Attempted(
            Reply([S1 EXCEPT !.regeneration_context[u].slides_prompts = Put(@, slide_num, tpl),
                             !.regeneration_context[u].slides_params = Put(@, slide_num, img)],
                  u, "job", None, "slide_failed"),
            gen.attempts)

\* AirtableService.create_carousel_record: the fields of the new record; the
\* prompt and the image of a slide go to the fields Prompt_slide<n> and
\* Visual_slide<n> of the slides the two loops visit
create_carousel_record(topic, slides_count, image1_url, slides_prompts, slides_images) ==
  LET \* range(1, 9) of the two loops
      RecordSlides == 1 .. 8
  IN [topic |-> topic, slides_count |-> slides_count, image1 |-> image1_url,
      Prompt_slide |-> [n \in RecordSlides \cap DOMAIN slides_prompts |-> slides_prompts[n]],
      Visual_slide |-> [n \in RecordSlides \cap DOMAIN slides_images |-> slides_images[n]]]
\* AirtableService.get_slide_prompt: fields.get("Prompt_slide<n>") of the
\* record, None without the record or without the field
get_slide_prompt(table, record_id, slide_num) ==
  IF ~Has(table, record_id) THEN None
  ELSE IF ~Has(table[record_id].Prompt_slide, slide_num) THEN None
  ELSE table[record_id].Prompt_slide[slide_num]
\* the record of the finished job of u, made from its regeneration context
NewRecord(S, u, f) ==
  create_carousel_record(f.topic, f.slides_count, f.image1_url,
                         S.regeneration_context[u].slides_prompts,
                         S.regeneration_context[u].slides_images)

\* after the loop: carousel data stored, the record created (a failure is
\* swallowed), the regeneration offer made
\* (variant: a record that cannot be created ends the job with an error)
carousel_finish_record_required(S, u, s, created) ==
  LET f == S.frames[u][s]
      S0 == [S EXCEPT !.frames[u][s].pc = "done",
                      !.carousel_data_storage = Put(@, u, CarouselData(f.topic, f.data))]
      S1 == [S0 EXCEPT !.waiting_for_regenerate_decision = Put(@, u, TRUE)]
  IN IF created /\ HasSlidesCount(S, u)
     THEN Reply([S1 EXCEPT !.regeneration_context[u].airtable_record_id = RecordId(f.topic),
                           !.airtable = Put(@, RecordId(f.topic), NewRecord(S, u, f))],
                u, "job", None, "offer_regenerate")
     ELSE Reply(S0, u, "job", None, "record_error")
carousel_finish(S, u, s, created) ==
  LET f == S.frames[u][s]
      S1 == [S EXCEPT !.frames[u][s].pc = "done",
                      !.carousel_data_storage = Put(@, u, CarouselData(f.topic, f.data)),
                      !.waiting_for_regenerate_decision = Put(@, u, TRUE)]
  IN IF created /\ HasSlidesCount(S, u)
     THEN Reply([S1 EXCEPT !.regeneration_context[u].airtable_record_id = RecordId(f.topic),
                           !.airtable = Put(@, RecordId(f.topic), NewRecord(S, u, f))],
                u, "job", None, "offer_regenerate")
     ELSE Reply(S1, u, "job", None, "offer_regenerate")

\* ------------------------------------------- infographic and post jobs
\* generate_infographic: one generation task is created and awaited (no
\* loop), then the regeneration offer
generate_infographic(S, u, s, answers) ==
  Attempted(
    IF answers[1] = "url"
    THEN Reply([S EXCEPT !.frames[u][s].pc = "done",
                         !.waiting_for_infographic_regenerate_decision = Put(@, u, TRUE)],
               u, "job", None, "offer_regenerate_infographic")
    ELSE Reply([S EXCEPT !.frames[u][s].pc = "done"], u, "job", None, "infographic_failed"),
    1)

\* generate_infographic_standalone: the structure generator is asked for the
\* heading and the tips (document), then one generation task is created and
\* awaited (no loop)
generate_infographic_standalone(S, u, s, document, answers) ==
  LET f == S.frames[u][s]
      ctx == IF Has(S.regeneration_context, u) THEN S.regeneration_context[u]
             ELSE EmptyContext
  IN IF ~document
     THEN Reply([S EXCEPT !.frames[u][s].pc = "done"], u, "job", None, "infographic_failed")
     ELSE Attempted(
            IF answers[1] = "url"
            THEN Reply([S EXCEPT !.frames[u][s].pc = "done",
                                 !.regeneration_context =
                                    Put(@, u, [ctx EXCEPT !.infographic_prompt = "infographic_prompt",
                                                          !.topic = f.topic]),
                                 !.waiting_for_infographic_regenerate_decision = Put(@, u, TRUE)],
                       u, "job", None, "offer_regenerate_infographic")
            ELSE Reply([S EXCEPT !.frames[u][s].pc = "done"], u, "job", None,
                       "infographic_failed"),
            1)

generate_post(S, u, s, ok) ==
  IF ok
  THEN Reply([S EXCEPT !.frames[u][s].pc = "done",
                       !.waiting_for_post_regenerate_decision = Put(@, u, TRUE)],
             u, "job", None, "offer_regenerate_post")
  ELSE Reply([S EXCEPT !.frames[u][s].pc = "done"], u, "job", None, "post_failed")

generate_post_standalone(S, u, s, ok) ==
  IF ok THEN Reply([S EXCEPT !.frames[u][s].pc = "done"], u, "job", None, "post_ready")
  ELSE Reply([S EXCEPT !.frames[u][s].pc = "done"], u, "job", None, "post_failed")

\* --------------------------------------------------------- regenerations
RegenerateSlideKinds == {"regenerate_slide", "regenerate_slide_from_airtable"}
\* after the first await: the new prompt is stored in the context
regenerate_slide_store(S, u, s) ==
  LET f == S.frames[u][s]
  IN IF ~HasSlidesCount(S, u)
     THEN Reply([S EXCEPT !.frames[u][s] = NoFrame], u, "regen", None, "regenerate_error")
     ELSE Reply([S EXCEPT !.frames[u][s].pc = "gen",
                          !.regeneration_context[u].slides_prompts = Put(@, f.slide_num, f.prompt)],
                u, "regen", None, None)

\* after the generation attempts
regenerate_slide_finish(S, u, s, answers) ==
  LET f == S.frames[u][s]
      gen == generate_attempts(answers, 1)
      S1 == [S EXCEPT !.frames[u][s] = NoFrame]
  IN Attempted(
       IF gen.image_url = None THEN Reply(S1, u, "regen", None, "regenerate_failed")
       ELSE IF ~HasSlidesCount(S, u) THEN Reply(S1, u, "regen", None, "regenerate_error")
       ELSE Reply([S1 EXCEPT !.regeneration_context[u].slides_images =
                                Put(@, f.slide_num, gen.image_url),
                             !.waiting_for_regenerate_decision = Put(@, u, TRUE)],
                  u, "regen", None, "offer_regenerate"),
       gen.attempts)

RegenerateInfographicKinds == {"regenerate_infographic_inline",
                               "regenerate_infographic_from_airtable"}
regenerate_infographic_finish(S, u, s, answers) ==
  LET f == S.frames[u][s]
      gen == generate_attempts(answers, 1)
      S1 == [S EXCEPT !.frames[u][s] = NoFrame]
      offered == [S1 EXCEPT !.waiting_for_infographic_regenerate_decision = Put(@, u, TRUE)]
  IN Attempted(
       IF gen.image_url = None THEN Reply(S1, u, "regen", None, "regenerate_failed")
       ELSE IF f.kind = "regenerate_infographic_from_airtable"
       THEN Reply(offered, u, "regen", None, "offer_regenerate_infographic")
       ELSE IF ~Has(S.regeneration_context, u)
       THEN Reply(S1, u, "regen", None, "regenerate_error")
       ELSE Reply([offered EXCEPT !.regeneration_context[u].infographic_prompt = f.prompt],
                  u, "regen", None, "offer_regenerate_infographic"),
       gen.attempts)

\* ------------------------------------------------------------------ actions
\* the dispatcher hands one more update to its handler
Event(n) == events < MaxEvents /\ Apply([n EXCEPT !.events = @ + 1])
Start(u) == Event(start_command(Cur, u))
Help(u) == Event(help_command(Cur, u))
UploadBackgrounds(u, out) == Event(upload_backgrounds_command(Cur, u, out))
Message(u, text, out) == Event(handle_message(Cur, u, text, out))
Photo(u) == Event(handle_photo(Cur, u))
PhotoResume(u, s, out) ==
  /\ frames[u][s].kind = "handle_photo"
  /\ Apply(handle_photo_resume(Cur, u, s, out))
AfterReply(u, s) ==
  /\ frames[u][s].pc = "reply"
  /\ Apply(after_reply(Cur, u, s))
TaskDone(u, s) ==
  /\ frames[u][s].pc = "done"
  /\ Apply(task_done(Cur, u, s))
CarouselStart(u, s) ==
  /\ frames[u][s].kind = "carousel" /\ frames[u][s].pc = "start"
  /\ Apply(carousel_start(Cur, u, s))
CarouselStructure(u, s) ==
  /\ frames[u][s].kind = "carousel" /\ frames[u][s].pc = "gemini"
  /\ \E out \in GeminiOutcomes(frames[u][s].slides_count) :
        Apply(carousel_structure(Cur, u, s, out))
CarouselSlide(u, s) ==
  /\ frames[u][s].kind = "carousel" /\ frames[u][s].pc = "slides"
  /\ \E out \in SlideOutcomes : Apply(carousel_slide(Cur, u, s, out))
CarouselFinish(u, s) ==
  /\ frames[u][s].kind = "carousel" /\ frames[u][s].pc = "finish"
  /\ \E created \in BOOLEAN : Apply(carousel_finish(Cur, u, s, created))
Infographic(u, s) ==
  /\ frames[u][s].kind = "infographic" /\ frames[u][s].pc = "run"
  /\ \E answers \in AttemptAnswers : Apply(generate_infographic(Cur, u, s, answers))
InfographicStandalone(u, s) ==
  /\ frames[u][s].kind = "infographic_standalone" /\ frames[u][s].pc = "run"
  /\ \E document \in BOOLEAN, answers \in AttemptAnswers :
        Apply(generate_infographic_standalone(Cur, u, s, document, answers))
Post(u, s) ==
  /\ frames[u][s].kind = "post" /\ frames[u][s].pc = "run"
  /\ \E ok \in BOOLEAN : Apply(generate_post(Cur, u, s, ok))
PostStandalone(u, s) ==
  /\ frames[u][s].kind = "post_standalone" /\ frames[u][s].pc = "run"
  /\ \E ok \in BOOLEAN : Apply(generate_post_standalone(Cur, u, s, ok))
RegenerateSlideStore(u, s) ==
  /\ frames[u][s].kind \in RegenerateSlideKinds /\ frames[u][s].pc = "begin"
  /\ Apply(regenerate_slide_store(Cur, u, s))
RegenerateSlideFinish(u, s) ==
  /\ frames[u][s].kind \in RegenerateSlideKinds /\ frames[u][s].pc = "gen"
  /\ \E answers \in AttemptAnswers : Apply(regenerate_slide_finish(Cur, u, s, answers))
RegenerateInfographicFinish(u, s) ==
  /\ frames[u][s].kind \in RegenerateInfographicKinds /\ frames[u][s].pc = "gen"
  /\ \E answers \in AttemptAnswers :
        Apply(regenerate_infographic_finish(Cur, u, s, answers))

\* Spec explores behaviours of at most MaxEvents updates; the steps of the
\* jobs that need a longer conversation (Infographic, Post and the slide
\* regeneration, all offered only after a finished carousel) are not among its
\* steps: they are steps of FlowSpec.
Next ==
  \/ \E u \in Senders : Start(u)
  \/ \E u \in Senders : Help(u)
  \/ \E u \in Senders, out \in {"no_file", "error", "ok"} : UploadBackgrounds(u, out)
  \/ \E u \in Senders, text \in ModeButtons \cup {"T1", "T2"} \cup IntTexts \cup {"Yes", "no", "+"},
        out \in AirtableReads : Message(u, text, out)
  \/ \E u \in Senders : Photo(u)
  \/ \E u \in Senders, s \in Slots, out \in PhotoOutcomes : PhotoResume(u, s, out)
  \/ \E u \in Senders, s \in Slots : AfterReply(u, s)
  \/ \E u \in Senders, s \in Slots : TaskDone(u, s)
  \/ \E u \in Senders, s \in Slots : CarouselStart(u, s)
  \/ \E u \in Senders, s \in Slots : CarouselStructure(u, s)
  \/ \E u \in Senders, s \in Slots : CarouselSlide(u, s)
  \/ \E u \in Senders, s \in Slots : CarouselFinish(u, s)
  \/ \E u \in Senders, s \in Slots : InfographicStandalone(u, s)
  \/ \E u \in Senders, s \in Slots : PostStandalone(u, s)
  \/ \E u \in Senders, s \in Slots : RegenerateInfographicFinish(u, s)

Spec == Init /\ [][Next]_vars

\* ----------------------------------- the conversation that follows a carousel
\* FlowSpec explores longer conversations of one allowed user who sends the
\* next update only when none of their coroutines is in flight, with the
\* texts the flows after a carousel react to (a topic, a slide count that is
\* also a slide number, a number out of every range, yes, no, "+", and one
\* mode button).
FlowSenders == {649760082}
Quiet(u) == \A s \in Slots : frames[u][s].kind = "free"
FlowEvent(u, n) ==
  events < MaxFlowEvents /\ Quiet(u) /\ Apply([n EXCEPT !.events = @ + 1])
FlowMessage(u, text, out) == FlowEvent(u, handle_message(Cur, u, text, out))
FlowPhoto(u) == FlowEvent(u, handle_photo(Cur, u))
FlowNext ==
  \/ \E u \in FlowSenders, text \in {"T1", "2", "21", "Yes", "no", "+", BtnCarousel}, out \in AirtableReads :
        FlowMessage(u, text, out)
  \/ \E u \in FlowSenders : FlowPhoto(u)
  \/ \E u \in FlowSenders, s \in Slots, out \in PhotoOutcomes : PhotoResume(u, s, out)
  \/ \E u \in FlowSenders, s \in Slots : AfterReply(u, s)
  \/ \E u \in FlowSenders, s \in Slots : TaskDone(u, s)
  \/ \E u \in FlowSenders, s \in Slots : CarouselStart(u, s)
  \/ \E u \in FlowSenders, s \in Slots : CarouselStructure(u, s)
  \/ \E u \in FlowSenders, s \in Slots : CarouselSlide(u, s)
  \/ \E u \in FlowSenders, s \in Slots : CarouselFinish(u, s)
  \/ \E u \in FlowSenders, s \in Slots : Infographic(u, s)
  \/ \E u \in FlowSenders, s \in Slots : Post(u, s)
  \/ \E u \in FlowSenders, s \in Slots : RegenerateSlideStore(u, s)
  \/ \E u \in FlowSenders, s \in Slots : RegenerateSlideFinish(u, s)
FlowSpec == Init /\ [][FlowNext]_vars

\* FlowSpec with the scheduling of the event loop: a job that was created is
\* run to its end, so a step of the carousel job that stays enabled is taken
FairFlowSpec ==
  /\ FlowSpec
  /\ \A u \in FlowSenders, s \in Slots :
        /\ WF_vars(CarouselStart(u, s))
        /\ WF_vars(CarouselStructure(u, s))
        /\ WF_vars(CarouselSlide(u, s))
        /\ WF_vars(CarouselFinish(u, s))

\* ============================================================== properties
\* vocabulary of the properties, written over the variables themselves

\* the awaiting maps (and pending_requests) that hold an entry of u
ActiveAwaiting(u) ==
  (IF Has(pending_requests, u) THEN {"pending_requests"} ELSE {})
  \cup (IF Has(waiting_for_infographic, u) THEN {"waiting_for_infographic"} ELSE {})
  \cup (IF Has(waiting_for_post, u) THEN {"waiting_for_post"} ELSE {})
  \cup (IF Has(waiting_for_post_topic, u) THEN {"waiting_for_post_topic"} ELSE {})
  \cup (IF Has(waiting_for_regenerate_decision, u)
        THEN {"waiting_for_regenerate_decision"} ELSE {})
  \cup (IF Has(waiting_for_slide_number, u) THEN {"waiting_for_slide_number"} ELSE {})
  \cup (IF Has(waiting_for_edited_prompt, u) THEN {"waiting_for_edited_prompt"} ELSE {})
  \cup (IF Has(waiting_for_airtable_update, u) THEN {"waiting_for_airtable_update"} ELSE {})
  \cup (IF Has(waiting_for_infographic_regenerate_decision, u)
        THEN {"waiting_for_infographic_regenerate_decision"} ELSE {})
  \cup (IF Has(waiting_for_infographic_airtable_update, u)
        THEN {"waiting_for_infographic_airtable_update"} ELSE {})
  \cup (IF Has(waiting_for_edited_infographic_prompt, u)
        THEN {"waiting_for_edited_infographic_prompt"} ELSE {})
  \cup (IF Has(waiting_for_post_regenerate_decision, u)
        THEN {"waiting_for_post_regenerate_decision"} ELSE {})
  \cup (IF Has(waiting_for_post_airtable_update, u)
        THEN {"waiting_for_post_airtable_update"} ELSE {})

\* the generation jobs of u that were created and have not finished
RunningJobs(u) ==
  {s \in Slots : /\ frames[u][s].kind \in {"carousel", "infographic",
                                            "infographic_standalone", "post",
                                            "post_standalone"}
                 /\ frames[u][s].pc \notin {"reply", "done"}}
\* the handle stored for u is unresolved
HandleUnresolved(u) ==
  Has(tasks_queue, u) /\ frames[u][tasks_queue[u]].pc # "done"
\* this step is the handling of a text message of u
TextStep(u) == events' = events + 1 /\ last'.user = u /\ last'.ev = "text"
\* this step is the first part of the handling of a photo of u
PhotoStep(u) == events' = events + 1 /\ last'.user = u /\ last'.ev = "photo"
\* the coroutines of u are the same after the step
SameFrames(u) == frames'[u] = frames[u]
\* slots of u in which this step puts a job of one of the kinds
Dispatched(u, kinds) ==
  {s \in Slots : frames'[u][s].kind \in kinds /\ frames[u][s].kind \notin kinds}

\* the conversation states of the carousel flow: nothing else is awaited, the
\* mode is carousel, the background is configured and no handle is unresolved
CarouselFlowOnly(u) ==
  /\ ActiveAwaiting(u) = {"pending_requests"}
  /\ ~(Has(user_mode, u) /\ user_mode[u] = "infographic")
  /\ background_image2_url # None
  /\ ~HandleUnresolved(u)
InAwaitingReferenceImage(u) ==
  CarouselFlowOnly(u) /\ pending_requests[u].image1_url = None
InAwaitingSlideCount(u) ==
  CarouselFlowOnly(u) /\ pending_requests[u].image1_url # None
\* the text of the step is an integer in [2, 20]
ValidCountTyped ==
  /\ last'.text \in IntTexts
  /\ IntOf(last'.text) >= MinSlides
  /\ IntOf(last'.text) <= MaxSlides

C3_AtMostOneAwaiting == \A u \in Users : Cardinality(ActiveAwaiting(u)) <= 1

\* C4: a pending request appears only by a topic text, gets its image only by
\* a photo handled while it is pending, and a carousel job is dispatched only
\* by an integer text while the request holds an image, with the request's
\* topic and image and the typed count; a photo sent when nothing is pending is
\* turned away and changes nothing.
C4_CarouselAfterTopicPhotoCount ==
  [][\A u \in Users :
        /\ (~Has(pending_requests, u) /\ Has(pending_requests', u))
           => /\ TextStep(u)
              /\ pending_requests'[u] =
                   [topic |-> last'.text, image1_url |-> None, slides_count |-> None]
        /\ (/\ Has(pending_requests', u)
            /\ pending_requests'[u].image1_url # None
            /\ (~Has(pending_requests, u) \/ pending_requests[u].image1_url = None))
           => /\ Has(pending_requests, u)
              /\ last'.user = u /\ last'.ev = "photo_done"
              /\ pending_requests'[u].topic = pending_requests[u].topic
        /\ \A s \in Dispatched(u, {"carousel"}) :
              /\ Has(pending_requests, u)
              /\ pending_requests[u].image1_url # None
              /\ TextStep(u)
              /\ last'.text \in IntTexts
              /\ frames'[u][s].topic = pending_requests[u].topic
              /\ frames'[u][s].image1_url = pending_requests[u].image1_url
              /\ frames'[u][s].slides_count = IntOf(last'.text)
        /\ (PhotoStep(u) /\ ~Has(pending_requests, u))
           => /\ last'.reply \in {"topic_first", "access_denied"}
              /\ session' = session
              /\ frames' = frames
              /\ tasks_queue' = tasks_queue]_vars
\* a carousel job created for the topic, the photo and the count 3
C4_Witness ==
  \E u \in Users, s \in Slots :
     /\ frames[u][s].kind = "carousel" /\ frames[u][s].pc = "start"
     /\ frames[u][s].topic = "T1" /\ frames[u][s].image1_url = ImgUrl
     /\ frames[u][s].slides_count = 3
     /\ Has(tasks_queue, u) /\ tasks_queue[u] = s

C8_StrangerChangesNothing ==
  [][\A u \in Users \ ALLOWED_USER_IDS :
        (events' = events + 1 /\ last'.user = u)
        => /\ last'.reply = "access_denied"
           /\ last'.ev \in {"start", "help", "upload_backgrounds", "text", "photo"}
           /\ session' = session
           /\ frames' = frames
           /\ tasks_queue' = tasks_queue
           /\ background_image2_url' = background_image2_url]_vars
\* a photo of the stranger was denied while an allowed user awaits a photo
C8_Witness ==
  /\ last.user = Stranger /\ last.ev = "photo" /\ last.reply = "access_denied"
  /\ \E u \in ALLOWED_USER_IDS : Has(pending_requests, u)

\* C9 (as stated): while the background is unset no generation job of any
\* kind is started.
C9_NoJobWithoutBackground ==
  [][background_image2_url = None
     => \A u \in Users : Dispatched(u, TaskKinds) = {}]_vars
\* C9 (amended): while the background is unset no carousel and no infographic
\* job is started, and a text that reaches the topic / count dispatch is
\* answered with the not-configured message and changes nothing; the
\* standalone post job, dispatched before the background is looked at, is the
\* exception.
C9_NoImageJobWithoutBackground ==
  [][background_image2_url = None
     => \A u \in Users :
          /\ Dispatched(u, {"carousel", "infographic", "infographic_standalone"}) = {}
          /\ (/\ u \in ALLOWED_USER_IDS /\ TextStep(u)
              /\ last'.text \notin ModeButtons
              /\ ActiveAwaiting(u) \subseteq {"pending_requests"})
             => /\ last'.reply = "not_configured"
                /\ session' = session
                /\ frames' = frames
                /\ tasks_queue' = tasks_queue]_vars
\* a topic was just answered with the not-configured message
C9_Witness ==
  /\ background_image2_url = None
  /\ last.ev = "text" /\ last.text = "T1" /\ last.reply = "not_configured"
  /\ last.user \in ALLOWED_USER_IDS

\* C10: a carousel job that reaches its end (the regeneration offer) with an
\* image for every slide it built has built
\* exactly the slides 1..N, slide 1 with the first template, slide N with the
\* last one and the slides between them with the interior one.
C10_SlidesOneToN ==
  \A u \in Users :
     (/\ last.user = u /\ last.ev = "job" /\ last.reply = "offer_regenerate"
      /\ Has(regeneration_context, u) /\ regeneration_context[u].carousel
      /\ DOMAIN regeneration_context[u].slides_images
           = DOMAIN regeneration_context[u].slides_prompts)
     => LET c == regeneration_context[u]
        IN /\ DOMAIN c.slides_prompts = 1 .. c.slides_count
           /\ \A i \in DOMAIN c.slides_prompts :
                 c.slides_prompts[i] = IF i = 1 THEN "slide1"
                                       ELSE IF i = c.slides_count THEN "slide8"
                                       ELSE "slides_2_7"

\* ------------------------------------------------ the steps of a carousel job
\* the step is one iteration of the slide loop of the carousel job in
\* frame s of u, for a slide whose number lies in 1 .. slides_count and
\* whose prompt and reference image were built
SlideBuilt(u, s) ==
  /\ frames[u][s].kind = "carousel" /\ frames[u][s].pc = "slides"
  /\ frames[u][s].slides # <<>>
  /\ frames'[u][s].kind = "carousel"
  /\ frames'[u][s].slides = Tail(frames[u][s].slides)
  /\ Head(frames[u][s].slides) \in 1 .. frames[u][s].slides_count
  /\ last'.user = u /\ last'.ev = "job"
  /\ last'.reply \in {"slide_sent", "slide_failed"}
\* the template the claim gives to slide k of an N-slide job
TemplateByNumber(k, N) ==
  IF k = 1 THEN "slide1" ELSE IF k = N THEN "slide8" ELSE "slides_2_7"

\* C11 (as stated): slide k of an N-slide job is built from its number alone:
\* slide 1 with the user's photo and the title template, slide N with the
\* shared background and the call-to-action template, the slides between with
\* the shared background and the body template.
C11_ReferenceAlwaysBackground ==
  [][\A u \in Users, s \in Slots :
       SlideBuilt(u, s)
       => LET k == Head(frames[u][s].slides)
              N == frames[u][s].slides_count
              c == regeneration_context'[u]
          IN /\ c.slides_prompts[k] = TemplateByNumber(k, N)
             /\ c.slides_params[k] = IF k = 1 THEN frames[u][s].image1_url
                                     ELSE background_image2_url]_vars
\* C11 (amended): the template of slide k is chosen from its number alone
\* (title template for 1, call-to-action template exactly for N, body template
\* between), slide 1 uses the user's photo, and every other slide uses the
\* shared background or, when the reachability probe of the background fails,
\* no reference image at all.
C11_TemplateByNumber ==
  [][\A u \in Users, s \in Slots :
       SlideBuilt(u, s)
       => LET k == Head(frames[u][s].slides)
              N == frames[u][s].slides_count
              c == regeneration_context'[u]
          IN /\ c.slides_prompts[k] = TemplateByNumber(k, N)
             /\ (c.slides_prompts[k] = "slide8") <=> (k = N)
             /\ c.slides_params[k] \in
                  IF k = 1 THEN {frames[u][s].image1_url}
                  ELSE {background_image2_url, None}]_vars
\* a three-slide job has built its interior and its last slide, the interior
\* one without a reference image
C11_Witness ==
  \E u \in Users :
     /\ Has(regeneration_context, u) /\ regeneration_context[u].carousel
     /\ regeneration_context[u].slides_count = 3
     /\ DOMAIN regeneration_context[u].slides_prompts = {1, 2, 3}
     /\ regeneration_context[u].slides_prompts[2] = "slides_2_7"
     /\ regeneration_context[u].slides_prompts[3] = "slide8"
     /\ regeneration_context[u].slides_params[2] = None
     /\ regeneration_context[u].slides_params[3] = BgUrl

\* the step is an iteration of the slide loop of the carousel job in frame s
\* of u that reports the failure of every attempt for its slide
SlideFails(u, s) ==
  /\ frames[u][s].kind = "carousel" /\ frames[u][s].pc = "slides"
  /\ frames'[u][s] # frames[u][s]
  /\ last'.user = u /\ last'.ev = "job" /\ last'.reply = "slide_failed"

\* C12: when every attempt for slide k fails the user gets the slide-failed
\* message, the job goes on with the slides after k, and it still ends with
\* the regeneration offer.
C12_FailedSlideDoesNotEndJob ==
  /\ [][\A u \in Users, s \in Slots :
          SlideFails(u, s)
          => /\ Head(frames[u][s].slides) \notin DOMAIN regeneration_context'[u].slides_images
             /\ frames'[u][s].kind = "carousel"
             /\ frames'[u][s].slides = Tail(frames[u][s].slides)
             /\ frames'[u][s].pc = IF Tail(frames[u][s].slides) = <<>>
                                   THEN "finish" ELSE "slides"]_vars
  /\ \A u \in FlowSenders :
        (last.user = u /\ last.ev = "job" /\ last.reply = "slide_failed")
        ~> (/\ last.user = u /\ last.ev = "job" /\ last.reply = "offer_regenerate"
            /\ Has(waiting_for_regenerate_decision, u))
\* a two-slide job whose first slide failed has sent its second slide and
\* made the regeneration offer
C12_Witness ==
  \E u \in Users :
     /\ last.user = u /\ last.ev = "job" /\ last.reply = "offer_regenerate"
     /\ Has(waiting_for_regenerate_decision, u)
     /\ Has(regeneration_context, u) /\ regeneration_context[u].carousel
     /\ DOMAIN regeneration_context[u].slides_prompts = {1, 2}
     /\ DOMAIN regeneration_context[u].slides_images = {2}

\* the replies that end a carousel job before its first slide
StructureFailures == {"gemini_failed", "no_slides"}
\* the step is the return of the structure generator to the carousel job in
\* frame s of u, with nothing to build slides from: an exception, an empty
\* document, or an object without slides
StructureWithoutSlides(u, s) ==
  /\ frames[u][s].kind = "carousel" /\ frames[u][s].pc = "gemini"
  /\ frames'[u][s] # frames[u][s]
  /\ frames'[u][s].slides = <<>>
  /\ frames'[u][s].data # NotAnObject
\* the step is the end of the handler that awaited the carousel job in frame s
\* of u, a job that ended with a structure failure
FailedJobAwaited(u, s) ==
  /\ frames[u][s].kind = "carousel" /\ frames[u][s].pc = "done"
  /\ last.user = u /\ last.ev = "job" /\ last.reply \in StructureFailures
  /\ frames'[u][s] # frames[u][s]

FinishWithoutRecord(u, s) ==
  /\ frames[u][s].kind = "carousel" /\ frames[u][s].pc = "finish"
  /\ frames'[u][s] # frames[u][s]
  /\ Has(regeneration_context, u) /\ regeneration_context[u].carousel
  /\ Has(regeneration_context', u)
  /\ regeneration_context'[u].airtable_record_id = None

\* C14: when the record of the carousel cannot be created the failure is
\* swallowed: the only message is the regeneration offer, the context keeps
\* the prompts and the images of the slides, and the user is asked whether to
\* regenerate a slide.
C14_RecordFailureSwallowed ==
  [][\A u \in Users, s \in Slots :
       FinishWithoutRecord(u, s)
       => /\ last'.user = u /\ last'.ev = "job" /\ last'.reply = "offer_regenerate"
          /\ frames'[u][s].pc = "done"
          /\ regeneration_context'[u] = regeneration_context[u]
          /\ Has(waiting_for_regenerate_decision', u)
          /\ Has(carousel_data_storage', u)]_vars
\* a two-slide job has ended with the offer, both images kept, no record
C14_Witness ==
  \E u \in Users :
     /\ last.user = u /\ last.ev = "job" /\ last.reply = "offer_regenerate"
     /\ Has(waiting_for_regenerate_decision, u)
     /\ Has(regeneration_context, u) /\ regeneration_context[u].carousel
     /\ regeneration_context[u].airtable_record_id = None
     /\ DOMAIN regeneration_context[u].slides_images = {1, 2}
     /\ DOMAIN regeneration_context[u].slides_prompts = {1, 2}

\* ------------------------------------------ the flows that follow a carousel
\* the three regeneration decisions and the two offers
DecisionStates == {"waiting_for_regenerate_decision",
                   "waiting_for_infographic_regenerate_decision",
                   "waiting_for_post_regenerate_decision"}
OfferStates == {"waiting_for_infographic", "waiting_for_post"}
\* u is in exactly the awaiting state w
InState(u, w) == ActiveAwaiting(u) = {w}
\* the text of the step is neither a yes nor a no
OtherAnswer == ~IsYes(last'.text) /\ ~IsNo(last'.text)
\* the session of the step is unchanged but for the two offer maps
SameButOffers ==
  /\ pending_requests' = pending_requests /\ regenWaits' = regenWaits
  /\ carousel_data_storage' = carousel_data_storage /\ user_mode' = user_mode
  /\ regeneration_context' = regeneration_context
  /\ waiting_for_post_topic' = waiting_for_post_topic
  /\ tasks_queue' = tasks_queue
\* what an unrecognised answer does in the five yes/no states when the texts
\* in Exempt are left aside: in a decision state the re-prompt is sent and
\* nothing changes; in an offer state the re-prompt is sent and the handler
\* holds the payload of the offer, which it puts back when it ends
UnrecognisedKeepsState(Exempt) ==
  /\ \A u \in ALLOWED_USER_IDS :
        (TextStep(u) /\ OtherAnswer /\ last'.text \notin Exempt)
        => /\ (\E w \in DecisionStates : InState(u, w))
              => /\ last'.reply = "yes_or_no"
                 /\ session' = session /\ frames' = frames
                 /\ tasks_queue' = tasks_queue
           /\ InState(u, "waiting_for_infographic")
              => /\ last'.reply = "yes_or_no"
                 /\ SameButOffers /\ waiting_for_post' = waiting_for_post
                 /\ \E s \in Slots :
                       /\ frames' = [frames EXCEPT ![u][s] = frames'[u][s]]
                       /\ frames'[u][s].kind = "reput_infographic"
                       /\ frames'[u][s].topic = waiting_for_infographic[u]
           /\ InState(u, "waiting_for_post")
              => /\ last'.reply = "yes_or_no"
                 /\ SameButOffers /\ waiting_for_infographic' = waiting_for_infographic
                 /\ \E s \in Slots :
                       /\ frames' = [frames EXCEPT ![u][s] = frames'[u][s]]
                       /\ frames'[u][s].kind = "reput_post"
                       /\ frames'[u][s].topic = waiting_for_post[u].topic
                       /\ frames'[u][s].data = waiting_for_post[u].carousel_data
  /\ \A u \in ALLOWED_USER_IDS, s \in Slots :
        /\ (frames[u][s].kind = "reput_infographic" /\ frames'[u][s] # frames[u][s])
           => /\ frames'[u][s].kind = "free"
              /\ SameButOffers /\ waiting_for_post' = waiting_for_post
              /\ waiting_for_infographic'
                   = Put(waiting_for_infographic, u, frames[u][s].topic)
        /\ (frames[u][s].kind = "reput_post" /\ frames'[u][s] # frames[u][s])
           => /\ frames'[u][s].kind = "free"
              /\ SameButOffers /\ waiting_for_infographic' = waiting_for_infographic
              /\ waiting_for_post'
                   = Put(waiting_for_post, u, [topic |-> frames[u][s].topic,
                                               carousel_data |-> frames[u][s].data])

\* C15 (as stated): in each of the five yes/no states every text that is
\* neither a yes nor a no is answered with the re-prompt and leaves the state
\* and its payload as they were.
C15_EveryOtherAnswerKeepsState == [][UnrecognisedKeepsState({})]_vars
\* C15 (amended): the same for every text that is not one of the three mode
\* button labels, which are handled before any awaiting state is looked at;
\* in the two offer states the payload is taken out before the re-prompt and
\* put back, unchanged, when the handler ends.
C15_OtherAnswerButButtonsKeepsState == [][UnrecognisedKeepsState(ModeButtons)]_vars
\* the post regeneration decision was just re-prompted and is still awaited
C15_Witness ==
  \E u \in ALLOWED_USER_IDS :
     /\ last.user = u /\ last.ev = "text" /\ last.text = "T1"
     /\ last.reply = "yes_or_no"
     /\ InState(u, "waiting_for_post_regenerate_decision")

\* C16: in the slide regeneration decision a yes leads to the request for the
\* slide number and a no to the infographic offer, which carries the topic of
\* the finished carousel; neither starts a job.
C16_RegenerateDecision ==
  [][\A u \in ALLOWED_USER_IDS :
        (InState(u, "waiting_for_regenerate_decision") /\ TextStep(u))
        => /\ IsYes(last'.text)
              => /\ last'.reply = "ask_slide_number"
                 /\ ActiveAwaiting(u)' = {"waiting_for_slide_number"}
                 /\ frames' = frames /\ tasks_queue' = tasks_queue
                 /\ regeneration_context' = regeneration_context
           /\ IsNo(last'.text)
              => /\ last'.reply = "offer_infographic"
                 /\ ActiveAwaiting(u)' = {"waiting_for_infographic"}
                 /\ waiting_for_infographic'[u] = regeneration_context[u].topic
                 /\ frames' = frames /\ tasks_queue' = tasks_queue
                 /\ regeneration_context' = regeneration_context]_vars
\* after a carousel on T1 a no has brought the infographic offer for T1
C16_Witness ==
  \E u \in ALLOWED_USER_IDS :
     /\ last.user = u /\ last.ev = "text" /\ last.reply = "offer_infographic"
     /\ InState(u, "waiting_for_infographic")
     /\ waiting_for_infographic[u] = "T1"
     /\ Has(regeneration_context, u) /\ regeneration_context[u].topic = "T1"

\* the text of the step is an integer in 1 .. slides_count of the carousel of u
SlideNumberTyped(u) ==
  /\ last'.text \in IntTexts
  /\ IntOf(last'.text) >= 1
  /\ IntOf(last'.text) <= regeneration_context[u].slides_count
\* the step answers with a re-prompt and changes nothing
Reprompted(replies) ==
  /\ last'.reply \in replies
  /\ session' = session /\ frames' = frames /\ tasks_queue' = tasks_queue
\* a slide number in range leads to the wait for the edit of slide n
EditAwaited(u) ==
  /\ last'.reply = "edit_in_airtable"
  /\ ActiveAwaiting(u)' = {"waiting_for_airtable_update"}
  /\ waiting_for_airtable_update'[u] = IntOf(last'.text)
  /\ frames' = frames /\ tasks_queue' = tasks_queue
  /\ regeneration_context' = regeneration_context

\* C17 (as stated): when the slide number is awaited an integer in
\* [1, slide_count] leads to the wait for the external edit of that slide, and
\* every other text is answered with a re-prompt and changes nothing.
C17_SlideNumberAlwaysAccepted ==
  [][\A u \in ALLOWED_USER_IDS :
        (InState(u, "waiting_for_slide_number") /\ TextStep(u))
        => IF SlideNumberTyped(u) THEN EditAwaited(u)
           ELSE Reprompted({"need_digit", "slide_number_out_of_range"})]_vars
\* C17 (amended): an integer in [1, slide_count] leads to the wait for the
\* external edit of that slide when the carousel has a record id; when it has
\* none (the record was not created) the user is told so and is left with no
\* awaiting state.  Every other text but the mode button labels is answered
\* with a re-prompt and changes nothing.
C17_SlideNumberNeedsRecord ==
  [][\A u \in ALLOWED_USER_IDS :
        (InState(u, "waiting_for_slide_number") /\ TextStep(u)
         /\ last'.text \notin ModeButtons)
        => IF SlideNumberTyped(u)
           THEN IF regeneration_context[u].airtable_record_id # None
                THEN EditAwaited(u)
                ELSE /\ last'.reply = "no_record_id"
                     /\ ActiveAwaiting(u)' = {}
                     /\ frames' = frames /\ tasks_queue' = tasks_queue
                     /\ regeneration_context' = regeneration_context
           ELSE Reprompted({"need_digit", "slide_number_out_of_range"})]_vars
\* slide 2 of a two-slide carousel with a record was chosen
C17_Witness ==
  \E u \in ALLOWED_USER_IDS :
     /\ last.user = u /\ last.ev = "text" /\ last.text = "2"
     /\ last.reply = "edit_in_airtable"
     /\ InState(u, "waiting_for_airtable_update")
     /\ waiting_for_airtable_update[u] = 2
     /\ regeneration_context[u].slides_count = 2

\* C20: in the infographic offer a yes starts exactly one infographic job,
\* for the stored topic, and a no leads to the post offer when carousel data
\* is stored and to no awaiting state otherwise.
C20_InfographicOffer ==
  [][\A u \in ALLOWED_USER_IDS :
        (InState(u, "waiting_for_infographic") /\ TextStep(u))
        => /\ IsYes(last'.text)
              => /\ last'.reply = "generating_infographic"
                 /\ Cardinality(Dispatched(u, TaskKinds)) = 1
                 /\ \A s \in Dispatched(u, TaskKinds) :
                       /\ frames'[u][s].kind = "infographic"
                       /\ frames'[u][s].topic = waiting_for_infographic[u]
                       /\ frames' = [frames EXCEPT ![u][s] = frames'[u][s]]
                 /\ ActiveAwaiting(u)' = {}
           /\ IsNo(last'.text)
              => /\ frames' = frames /\ tasks_queue' = tasks_queue
                 /\ IF Has(carousel_data_storage, u)
                    THEN /\ last'.reply = "offer_post"
                         /\ ActiveAwaiting(u)' = {"waiting_for_post"}
                         /\ waiting_for_post'[u].carousel_data = carousel_data_storage[u]
                    ELSE ActiveAwaiting(u)' = {}]_vars
\* the infographic job for T1 was just created from the offer
C20_Witness ==
  \E u \in ALLOWED_USER_IDS, s \in Slots :
     /\ last.user = u /\ last.ev = "text" /\ last.reply = "generating_infographic"
     /\ frames[u][s].kind = "infographic" /\ frames[u][s].topic = "T1"
     /\ ActiveAwaiting(u) = {}

\* the replies of a "+" that does not start a regeneration
EditReadFailures == {"KeyError", "no_record_id", "no_prompt", "airtable_error",
                     "no_context", "no_slide_params"}
\* the step is the "+" of u while the edit of a slide is awaited
PlusStep(u) ==
  InState(u, "waiting_for_airtable_update") /\ TextStep(u) /\ last'.text = "+"
\* the step creates, in slot s of u, the regeneration of slide n
RegenerationStarted(u, s, n) ==
  /\ frames[u][s].kind = "free"
  /\ frames'[u][s].kind \in RegenerateSlideKinds
  /\ frames'[u][s].slide_num = n
\* the step is a step of the slide regeneration in frame s of u
RegenerationStep(u, s) ==
  frames[u][s].kind \in RegenerateSlideKinds /\ frames'[u][s] # frames[u][s]
\* the step leaves what the context holds for the slides other than n alone
OnlySlideTouched(u, n) ==
  LET c == regeneration_context[u]
      d == regeneration_context'[u]
  IN /\ Has(regeneration_context', u)
     /\ d.slides_params = c.slides_params
     /\ DOMAIN d.slides_prompts = DOMAIN c.slides_prompts \cup {n}
     /\ DOMAIN d.slides_images \subseteq DOMAIN c.slides_images \cup {n}
     /\ \A k \in DOMAIN c.slides_prompts \ {n} : d.slides_prompts[k] = c.slides_prompts[k]
     /\ \A k \in DOMAIN c.slides_images \ {n} :
           k \in DOMAIN d.slides_images /\ d.slides_images[k] = c.slides_images[k]

\* C18 (as stated): while the edit of slide n is awaited a "+" starts the
\* regeneration of slide n, and the regeneration ends with the user in the
\* slide regeneration decision.
C18_PlusAlwaysRegenerates ==
  [][\A u \in ALLOWED_USER_IDS :
        /\ PlusStep(u)
           => \E s \in Slots : RegenerationStarted(u, s, waiting_for_airtable_update[u])
        /\ \A s \in Slots :
              (RegenerationStep(u, s) /\ frames'[u][s].kind = "free")
              => InState(u, "waiting_for_regenerate_decision")']_vars
\* C18 (amended): a "+" ends the wait for the edit; when the prompt of slide n
\* is read from the record store and slide n has cached parameters, exactly
\* slide n is regenerated with that prompt and its cached reference image,
\* and after a successful generation the user is in the slide regeneration
\* decision; when the prompt cannot be read, or no attempt returns an image,
\* the user gets an error and is left with no awaiting state.  Any other text
\* leaves the awaited edit and its slide number unchanged.
C18_PlusRegeneratesSlide ==
  [][\A u \in ALLOWED_USER_IDS :
        /\ (InState(u, "waiting_for_airtable_update") /\ TextStep(u))
           => IF last'.text = "+"
              THEN /\ ActiveAwaiting(u)' = {}
                   /\ regeneration_context' = regeneration_context
                   /\ IF last'.reply = "regenerating_slide"
                      THEN \E s \in Slots :
                             /\ RegenerationStarted(u, s, waiting_for_airtable_update[u])
                             /\ frames' = [frames EXCEPT ![u][s] = frames'[u][s]]
                             /\ frames'[u][s].prompt = EditedPrompt
                             /\ frames'[u][s].image_input =
                                  regeneration_context[u].slides_params[
                                     waiting_for_airtable_update[u]]
                      ELSE last'.reply \in EditReadFailures /\ frames' = frames
              ELSE /\ waiting_for_airtable_update' = waiting_for_airtable_update
                   /\ regenWaits' = regenWaits
                   /\ regeneration_context' = regeneration_context
                   /\ frames' = frames
        /\ \A s \in Slots :
              (RegenerationStep(u, s) /\ Has(regeneration_context, u))
              => /\ OnlySlideTouched(u, frames[u][s].slide_num)
                 /\ frames'[u][s].kind = "free"
                    => IF last'.reply = "offer_regenerate"
                       THEN /\ InState(u, "waiting_for_regenerate_decision")'
                            /\ regeneration_context'[u].slides_prompts[frames[u][s].slide_num]
                                 = frames[u][s].prompt
                            /\ frames[u][s].slide_num
                                 \in DOMAIN regeneration_context'[u].slides_images
                       ELSE /\ last'.reply \in {"regenerate_failed", "regenerate_error"}
                            /\ ActiveAwaiting(u)' = {}]_vars
\* slide 2 was regenerated with the prompt read from the record store and the
\* user is asked again
C18_Witness ==
  \E u \in ALLOWED_USER_IDS :
     /\ last.user = u /\ last.ev = "regen" /\ last.reply = "offer_regenerate"
     /\ InState(u, "waiting_for_regenerate_decision")
     /\ regeneration_context[u].slides_prompts[2] = EditedPrompt
     /\ regeneration_context[u].slides_prompts[1] = "slide1"

\* C19: after every successful regeneration, of a slide, of an infographic or
\* of a post, the user is asked again and is in the matching regeneration
\* decision.
C19_SuccessfulRegenerationReoffers ==
  \A u \in ALLOWED_USER_IDS :
     last.user = u
     => /\ (last.ev = "regen" /\ last.reply = "offer_regenerate")
           => Has(waiting_for_regenerate_decision, u)
        /\ (last.ev = "regen" /\ last.reply = "offer_regenerate_infographic")
           => Has(waiting_for_infographic_regenerate_decision, u)
        /\ (last.ev = "text" /\ last.reply = "post_updated")
           => Has(waiting_for_post_regenerate_decision, u)

\* what an answer to the post offer does; Cleared(u) is what is required of
\* the stored data once the handler of a no has ended
PostOfferAnswered(Cleared(_)) ==
  \A u \in ALLOWED_USER_IDS :
     /\ (InState(u, "waiting_for_post") /\ TextStep(u))
        => /\ IsYes(last'.text)
              => /\ last'.reply = "generating_post"
                 /\ Cardinality(Dispatched(u, TaskKinds)) = 1
                 /\ \A s \in Dispatched(u, TaskKinds) :
                       /\ frames'[u][s].kind = "post"
                       /\ frames'[u][s].topic = waiting_for_post[u].topic
                       /\ frames'[u][s].data = waiting_for_post[u].carousel_data
                       /\ frames' = [frames EXCEPT ![u][s] = frames'[u][s]]
                 /\ ActiveAwaiting(u)' = {}
           /\ IsNo(last'.text)
              => /\ last'.reply = "ok_no_more"
                 /\ Dispatched(u, TaskKinds) = {}
                 /\ tasks_queue' = tasks_queue
                 /\ ActiveAwaiting(u)' = {}
                 /\ Quiet(u)' => Cleared(u)
     /\ \A s \in Slots :
           (frames[u][s].kind = "post_declined" /\ frames'[u][s] # frames[u][s])
           => /\ frames'[u][s].kind = "free"
              /\ ActiveAwaiting(u)' = {}
              /\ Cleared(u)
\* nothing of the finished carousel is stored for u after the step
NoCarouselDataLeft(u) ==
  ~Has(carousel_data_storage', u) /\ ~Has(regeneration_context', u)
\* the carousel data kept for the post is gone after the step
PostDataCleared(u) == ~Has(carousel_data_storage', u)

\* C21 (as stated): in the post offer a yes starts exactly one post job with
\* the stored topic and carousel data; a no leaves the user with no awaiting
\* state and with no carousel data of the finished job stored.
C21_NoLeavesNoCarouselData == [][PostOfferAnswered(NoCarouselDataLeft)]_vars
\* C21 (amended): the same, except that a no removes only the carousel data
\* kept for the post (carousel_data_storage); the regeneration context of the
\* finished job, which holds the same structured content, stays until the
\* next carousel job starts.
C21_NoClearsPostData == [][PostOfferAnswered(PostDataCleared)]_vars
\* the post was declined: the data kept for it is gone, the regeneration
\* context still holds the content of the carousel
C21_Witness ==
  \E u \in ALLOWED_USER_IDS :
     /\ last.user = u /\ last.ev = "post_declined"
     /\ Quiet(u) /\ ActiveAwaiting(u) = {}
     /\ ~Has(carousel_data_storage, u)
     /\ Has(regeneration_context, u)
     /\ regeneration_context[u].carousel_data.slides # <<>>

\* the step is the iteration of the slide loop of the carousel job in frame s
\* of u with the outcomes out, for a slide after the cover
LaterSlideStep(u, s, out) ==
  /\ frames[u][s].kind = "carousel" /\ frames[u][s].pc = "slides"
  /\ frames[u][s].slides # <<>>
  /\ Head(frames[u][s].slides) \in 2 .. frames[u][s].slides_count
  /\ Has(regeneration_context, u) /\ regeneration_context[u].carousel
  /\ Apply(carousel_slide(Cur, u, s, out))

\* one of the answers of the image backend is an image URL
Generated(answers) == \E k \in DOMAIN answers : answers[k] = "url"

\* C22: when the reachability probe of the shared background fails for a
\* slide after the cover, the slide is generated with no reference image (the
\* unreachable URL is not handed to the image backend) and the job goes on.
C22_ProbeFailureDropsReference ==
  [][\A u \in Users, s \in Slots, out \in SlideOutcomes :
        (LaterSlideStep(u, s, out) /\ ~out.probe)
        => LET k == Head(frames[u][s].slides)
           IN /\ regeneration_context'[u].slides_params[k] = None
              /\ regeneration_context'[u].slides_params[k] # background_image2_url
              /\ last'.reply = IF Generated(out.answers) THEN "slide_sent" ELSE "slide_failed"
              /\ Generated(out.answers) => k \in DOMAIN regeneration_context'[u].slides_images
              /\ frames'[u][s].kind = "carousel"
              /\ frames'[u][s].pc \in {"slides", "finish"}
              /\ frames'[u][s].slides = Tail(frames[u][s].slides)]_vars
\* slide 2 was just sent, generated without a reference image although a
\* background is configured
C22_Witness ==
  \E u \in Users, s \in Slots :
     /\ last.user = u /\ last.ev = "job" /\ last.reply = "slide_sent"
     /\ background_image2_url = BgUrl
     /\ frames[u][s].kind = "carousel" /\ frames[u][s].pc = "finish"
     /\ Has(regeneration_context, u)
     /\ DOMAIN regeneration_context[u].slides_images = {1, 2}
     /\ regeneration_context[u].slides_params[2] = None

\* ---------------------------------------------------------------------------
\* Post texts.  A text is a sequence of characters; the characters that
\* clean_post_text tells apart are kept, and the letters of each introductory
\* phrase before its colon are one word character ("P1", "P2").
\* ---------------------------------------------------------------------------
Newline == "\n"

\* \w of the regular expressions: letters, digits and the underscore
WordChars == {"x", "b", "_", "P1", "P2"}

\* \s of the regular expressions and the characters str.strip() removes
Whitespace == {" ", Newline}

\* the least index j >= i with s[j] in C, Len(s) + 1 when there is none
FirstAt(s, i, C) ==
  LET J == {j \in i .. Len(s) : s[j] \in C}
  IN IF J = {} THEN Len(s) + 1 ELSE CHOOSE j \in J : \A k \in J : j <= k

\* the index after the run of characters of C that starts at i
RECURSIVE RunEnd(_, _, _)
RunEnd(s, i, C) ==
  IF i <= Len(s) /\ s[i] \in C THEN RunEnd(s, i + 1, C) ELSE i

RECURSIVE lstrip(_)
lstrip(s) == IF s # <<>> /\ Head(s) \in Whitespace THEN lstrip(Tail(s)) ELSE s

RECURSIVE rstrip(_)
rstrip(s) ==
  IF s # <<>> /\ s[Len(s)] \in Whitespace THEN rstrip(SubSeq(s, 1, Len(s) - 1)) ELSE s

strip(s) == rstrip(lstrip(s))

startswith(s, p) == Len(s) >= Len(p) /\ SubSeq(s, 1, Len(p)) = p

endswith(s, p) == Len(s) >= Len(p) /\ SubSeq(s, Len(s) - Len(p) + 1, Len(s)) = p

\* the loop over the phrases: each phrase is tried once, in list order
RECURSIVE strip_intro_phrases(_, _)
strip_intro_phrases(text, phrases) ==
  IF phrases = <<>> THEN text
  ELSE strip_intro_phrases(
         IF startswith(text, Head(phrases))
         THEN strip(SubSeq(text, Len(Head(phrases)) + 1, Len(text)))
         ELSE text,
         Tail(phrases))

\* one pair of wrapping quotes is removed
strip_quotes(text) ==
  IF \/ startswith(text, <<"\"">>) /\ endswith(text, <<"\"">>)
     \/ startswith(text, <<"'">>) /\ endswith(text, <<"'">>)
  THEN strip(SubSeq(text, 2, Len(text) - 1))
  ELSE text

\* the split into tags (from "<" to the next ">") and stretches of text
RECURSIVE split_parts(_, _)
split_parts(text, i) ==
  IF i > Len(text) THEN <<>>
  ELSE IF text[i] = "<"
  THEN LET tag_end == FirstAt(text, i, {">"})
       IN IF tag_end <= Len(text)
          THEN <<[type |-> "tag", text |-> SubSeq(text, i, tag_end)]>>
               \o split_parts(text, tag_end + 1)
          ELSE <<[type |-> "text", text |-> <<"<">>]>> \o split_parts(text, i + 1)
  ELSE LET e == FirstAt(text, i, {"<"})
       IN <<[type |-> "text", text |-> SubSeq(text, i, e - 1)]>> \o split_parts(text, e)

\* re.sub(r'\*\*([^*]+)\*\*', r'\1') and re.sub(r'__([^_]+)__', r'\1'), m the marker
RECURSIVE sub_double(_, _, _)
sub_double(s, i, m) ==
  LET j == FirstAt(s, i, {m})
      k == FirstAt(s, j + 2, {m})
  IN IF j > Len(s) THEN SubSeq(s, i, Len(s))
     ELSE IF /\ j + 1 <= Len(s) /\ s[j + 1] = m
             /\ k > j + 2
             /\ k + 1 <= Len(s) /\ s[k + 1] = m
     THEN SubSeq(s, i, j - 1) \o SubSeq(s, j + 2, k - 1) \o sub_double(s, k + 2, m)
     ELSE SubSeq(s, i, j) \o sub_double(s, j + 1, m)

\* re.sub(r'\*([^*\n]+?)\*', r'\1') and re.sub(r'_([^_\n]+?)_', r'\1')
RECURSIVE sub_single(_, _, _)
sub_single(s, i, m) ==
  LET j == FirstAt(s, i, {m})
      k == FirstAt(s, j + 1, {m, Newline})
  IN IF j > Len(s) THEN SubSeq(s, i, Len(s))
     ELSE IF k <= Len(s) /\ k > j + 1 /\ s[k] = m
     THEN SubSeq(s, i, j - 1) \o SubSeq(s, j + 1, k - 1) \o sub_single(s, k + 1, m)
     ELSE SubSeq(s, i, j) \o sub_single(s, j + 1, m)

\* re.sub(r'^#+\s+', '', flags=re.MULTILINE) with C = {"#"} and many = TRUE,
\* re.sub(r'^[\-\*\+]\s+', '', flags=re.MULTILINE) with C the list markers
RECURSIVE sub_line_start(_, _, _, _)
sub_line_start(s, i, C, many) ==
  LET j == FirstAt(s, i, C)
      h == IF many THEN RunEnd(s, j, C) ELSE j + 1
      w == RunEnd(s, h, Whitespace)
  IN IF j > Len(s) THEN SubSeq(s, i, Len(s))
     ELSE IF (j = 1 \/ s[j - 1] = Newline) /\ w > h
     THEN SubSeq(s, i, j - 1) \o sub_line_start(s, w, C, many)
     ELSE SubSeq(s, i, j) \o sub_line_start(s, j + 1, C, many)

\* re.sub(r'(?<!\w)\*+(?!\w)', '') and re.sub(r'(?<!\w)_+(?!\w)', ''): a run of
\* the marker with no word character before it and none after it; a run of
\* asterisks followed by a word character gives up its last asterisk
RECURSIVE sub_alone(_, _, _)
sub_alone(s, i, m) ==
  LET j == FirstAt(s, i, {m})
      e == RunEnd(s, j, {m})
      before == j = 1 \/ s[j - 1] \notin WordChars
      after == e > Len(s) \/ s[e] \notin WordChars
  IN IF j > Len(s) THEN SubSeq(s, i, Len(s))
     ELSE IF before /\ after
     THEN SubSeq(s, i, j - 1) \o sub_alone(s, e, m)
     ELSE IF before /\ e - j >= 2 /\ m \notin WordChars
     THEN SubSeq(s, i, j - 1) \o sub_alone(s, e - 1, m)
     ELSE SubSeq(s, i, j) \o sub_alone(s, j + 1, m)

\* re.sub(r'\n{3,}', '\n\n')
RECURSIVE sub_newlines(_, _)
sub_newlines(s, i) ==
  LET j == FirstAt(s, i, {Newline})
      e == RunEnd(s, j, {Newline})
  IN IF j > Len(s) THEN SubSeq(s, i, Len(s))
     ELSE IF e - j >= 3
     THEN SubSeq(s, i, j - 1) \o <<Newline, Newline>> \o sub_newlines(s, e)
     ELSE SubSeq(s, i, e - 1) \o sub_newlines(s, e)

\* the markdown removal of one stretch of text, in the order of the source
clean_text_part(part_text) ==
  LET c1 == sub_double(part_text, 1, "*")
      c2 == sub_double(c1, 1, "_")
      c3 == sub_single(c2, 1, "*")
      c4 == sub_single(c3, 1, "_")
      c5 == sub_line_start(c4, 1, {"#"}, TRUE)
      c6 == sub_line_start(c5, 1, {"-", "*", "+"}, FALSE)
      c7 == sub_alone(c6, 1, "*")
  IN sub_alone(c7, 1, "_")

\* tags pass through, stretches of text are cleaned, the parts are joined
RECURSIVE cleaned_parts(_)
cleaned_parts(parts) ==
  IF parts = <<>> THEN <<>>
  ELSE (IF Head(parts).type = "tag" THEN Head(parts).text
        ELSE clean_text_part(Head(parts).text))
       \o cleaned_parts(Tail(parts))

clean_post_text(text) ==
  IF text = <<>> THEN <<>>
  ELSE LET \* the first two introductory phrases of the list, in list order
           intro_phrases == << <<"P1", ":">>, <<"P2", ":">> >>
           t1 == strip_intro_phrases(strip(text), intro_phrases)
           t2 == strip_quotes(t1)
           t3 == cleaned_parts(split_parts(t2, 1))
       IN sub_newlines(strip(t3), 1)

\* ---------------------------------------------------------------------------
\* The post text pipeline: the text a post job receives from the text
\* backend is sanitized, checked for a minimum length, clamped and sent
\* (generate_post, generate_post_standalone); the text the post update reads
\* from the record store is sent as it is.  In this specification last.text
\* is the text received and last.reply the text produced by the last step.
\* ---------------------------------------------------------------------------
MinPostLength == 50
MaxPostLength == 4096
ClampedLength == 4093

\* if len(post_text) > 4096: post_text = post_text[:4093] + "..."
clamp_post_text(post_text) ==
  IF Len(post_text) > MaxPostLength
  THEN SubSeq(post_text, 1, ClampedLength) \o <<".", ".", ".">>
  ELSE post_text

RECURSIVE Join(_)
Join(ps) == IF ps = <<>> THEN <<>> ELSE Head(ps) \o Join(Tail(ps))

PostUser == 649760082

TextInit ==
  /\ background_image2_url = None
  /\ tasks_queue = EmptyDict
  /\ airtable = EmptyDict
  /\ pending_requests = EmptyDict
  /\ waiting_for_infographic = EmptyDict
  /\ waiting_for_post = EmptyDict
  /\ waiting_for_post_topic = EmptyDict
  /\ carousel_data_storage = EmptyDict
  /\ user_mode = EmptyDict
  /\ regeneration_context = EmptyDict
  /\ waiting_for_regenerate_decision = EmptyDict
  /\ waiting_for_slide_number = EmptyDict
  /\ waiting_for_edited_prompt = EmptyDict
  /\ waiting_for_airtable_update = EmptyDict
  /\ waiting_for_infographic_regenerate_decision = EmptyDict
  /\ waiting_for_infographic_airtable_update = EmptyDict
  /\ waiting_for_edited_infographic_prompt = EmptyDict
  /\ waiting_for_post_regenerate_decision = EmptyDict
  /\ waiting_for_post_airtable_update = EmptyDict
  /\ frames = [u \in Users |-> [s \in Slots |-> NoFrame]]
  /\ events = 0
  \* the texts the generator answers with: the short texts are up to MaxPieces
  \* pieces joined; the long texts are n characters, "x" up to the clamp
  \* position and "b" after it, bare or wrapped in "**"
  /\ LET Pieces ==
           { <<"P1", ":">>, <<"P2", ":">>, <<"\"">>, <<"'">>, <<"*">>, <<"*", "*">>,
             <<"_">>, <<"x">>, <<" ">>, <<Newline>>, <<"<", "b", ">">>, <<"<", "/", "b", ">">>,
             <<"#">>, <<"-">>, <<"<", "b", ">", "x", "<", "/", "b", ">">> }
         Filled(n) == [i \in 1 .. n |-> IF i <= ClampedLength THEN "x" ELSE "b"]
         Answer(text) == last = Said(PostUser, "post_text", text, None)
     IN \/ \E n \in 0 .. MaxPieces : \E ps \in [1 .. n -> Pieces] : Answer(Join(ps))
        \/ \E n \in {MinPostLength - 1, MinPostLength, MaxPostLength - 1, MaxPostLength,
                      MaxPostLength + 1, MaxPostLength + 104} : Answer(Filled(n))
        \/ \E n \in {MaxPostLength, MaxPostLength + 104} :
              Answer(<<"*", "*">> \o Filled(n) \o <<"*", "*">>)

PostTextStep(ev, reply) ==
  /\ last' = Said(PostUser, ev, last.text, reply)
  /\ UNCHANGED <<background_image2_url, tasks_queue, session, frames, events, airtable>>

\* clean_post_text applied to the text received
Sanitize ==
  /\ last.ev = "post_text"
  /\ PostTextStep("cleaned", clean_post_text(last.text))

\* clean_post_text applied to a text it has returned
SanitizeAgain ==
  /\ last.ev = "cleaned"
  /\ PostTextStep("cleaned_again", clean_post_text(last.reply))

\* the post job from the text backend's answer to the send
SendGeneratedPost ==
  /\ last.ev = "post_text"
  /\ IF last.text = <<>> \/ Len(strip(last.text)) < MinPostLength
     THEN PostTextStep("post_failed", None)
     ELSE LET post_text == clean_post_text(last.text)
          IN IF post_text = <<>> \/ Len(strip(post_text)) < MinPostLength
             THEN PostTextStep("post_too_short", None)
             ELSE PostTextStep("post_sent", clamp_post_text(post_text))

\* the post update: the Post_text field of the record is handed to the send
SendPostFromRecord ==
  /\ last.ev = "post_text"
  /\ IF last.text = <<>>
     THEN PostTextStep("no_post_text", None)
     ELSE PostTextStep("post_sent_from_record", last.text)

TextNext == Sanitize \/ SanitizeAgain \/ SendGeneratedPost \/ SendPostFromRecord

TextSpec == TextInit /\ [][TextNext]_vars

\* the post text of the last step was handed to the send
PostSent == last.ev \in {"post_sent", "post_sent_from_record"}

\* the text the send starts from: the sanitized text in the post jobs, the
\* stored text in the post update
TextToSend ==
  IF last.ev = "post_sent" THEN clean_post_text(last.text) ELSE last.text

\* C23: every post text sent to the user has at most 4096 characters: a text
\* longer than 4096 characters is sent as its first 4093 characters followed
\* by the three-character ellipsis marker, and a text of at most 4096
\* characters is sent unchanged.
C23_EverySentPostClamped ==
  PostSent
  => /\ Len(last.reply) <= MaxPostLength
     /\ Len(TextToSend) > MaxPostLength
        => last.reply = SubSeq(TextToSend, 1, ClampedLength) \o <<".", ".", ".">>
     /\ Len(TextToSend) <= MaxPostLength => last.reply = TextToSend

\* C24: post sanitization is idempotent: sanitizing a sanitized text returns
\* it unchanged, also for texts with stacked introductory phrases, nested
\* wrapping quotes and nested markdown markers.
C24_SanitizationIdempotent ==
  last.ev = "cleaned_again" => last.reply = clean_post_text(last.text)

BoldOpen == <<"<", "b", ">">>
BoldClose == <<"<", "/", "b", ">">>
Bold(X) == BoldOpen \o X \o BoldClose

\* t occurs in s as a contiguous stretch
Contains(s, t) ==
  \E i \in 1 .. Len(s) - Len(t) + 1 : SubSeq(s, i, i + Len(t) - 1) = t

\* the positions <<i, j>> of an opening tag <b> and a later closing tag </b>
\* of s with no tag in between
BoldRanges(s) ==
  LET opens == {i \in 1 .. Len(s) - 2 : SubSeq(s, i, i + 2) = BoldOpen}
      closes == {j \in 1 .. Len(s) - 3 : SubSeq(s, j, j + 3) = BoldClose}
  IN {p \in opens \X closes :
        /\ p[1] + 3 <= p[2]
        /\ \A k \in p[1] + 3 .. p[2] - 1 : s[k] \notin {"<", ">"}}

\* the contents X of the bold spans <b>X</b> of s
BoldSpans(s) == {SubSeq(s, p[1] + 3, p[2] - 1) : p \in BoldRanges(s)}

\* a run of asterisks starts at position k of s, outside the bold spans, with
\* no word character before the run and none after it
FreeAsterisksAt(s, k) ==
  /\ s[k] = "*"
  /\ k = 1 \/ s[k - 1] \notin WordChars \cup {"*"}
  /\ LET e == RunEnd(s, k, {"*"}) IN e > Len(s) \/ s[e] \notin WordChars
  /\ \A p \in BoldRanges(s) : ~(p[1] < k /\ k < p[2])

Cleaned == last.ev = "cleaned"

\* C25: every bold span <b>X</b> of a post text is still in the sanitized
\* text with its tags and its content X unchanged, and the markdown
\* asterisks outside the spans are removed (read in the weakest way: no run
\* of asterisks that stands free of word characters is left outside a span).
C25_BoldSpanKeptAsterisksRemoved ==
  (Cleaned /\ BoldSpans(last.text) # {})
  => /\ \A X \in BoldSpans(last.text) : Contains(last.reply, Bold(X))
     /\ \A k \in 1 .. Len(last.reply) : ~FreeAsterisksAt(last.reply, k)

\* ---------------------------------------------------------------------------
\* PairSpec: the two users of the allow-list talk to the bot at the same
\* time, each with a topic, a photo and a slide count; at most MaxEvents
\* updates in all.
\* ---------------------------------------------------------------------------

PairNext ==
  \/ \E u \in ALLOWED_USER_IDS, text \in {"T1", "2"}, out \in AirtableReads : Message(u, text, out)
  \/ \E u \in ALLOWED_USER_IDS : Photo(u)
  \/ \E u \in ALLOWED_USER_IDS, s \in Slots, out \in PhotoOutcomes : PhotoResume(u, s, out)
  \/ \E u \in ALLOWED_USER_IDS, s \in Slots : AfterReply(u, s)
  \/ \E u \in ALLOWED_USER_IDS, s \in Slots : TaskDone(u, s)
  \/ \E u \in ALLOWED_USER_IDS, s \in Slots : CarouselStart(u, s)
  \/ \E u \in ALLOWED_USER_IDS, s \in Slots : CarouselStructure(u, s)
  \/ \E u \in ALLOWED_USER_IDS, s \in Slots : CarouselSlide(u, s)
  \/ \E u \in ALLOWED_USER_IDS, s \in Slots : CarouselFinish(u, s)

PairSpec == Init /\ [][PairNext]_vars

\* the per-user dictionaries of the program
AllDicts ==
  <<tasks_queue, pending_requests, waiting_for_infographic, waiting_for_post,
    waiting_for_post_topic, carousel_data_storage, user_mode, regeneration_context,
    waiting_for_regenerate_decision, waiting_for_slide_number, waiting_for_edited_prompt,
    waiting_for_airtable_update, waiting_for_infographic_regenerate_decision,
    waiting_for_infographic_airtable_update, waiting_for_edited_infographic_prompt,
    waiting_for_post_regenerate_decision, waiting_for_post_airtable_update>>

\* what the dictionaries hold for u, and the coroutines of u
EntriesOf(u) ==
  <<[i \in 1 .. Len(AllDicts) |-> IF Has(AllDicts[i], u) THEN <<AllDicts[i][u]>> ELSE <<>>],
    frames[u]>>

\* C26: users do not interfere with each other: a step taken for one user
\* (an update of that user or a step of one of their jobs) changes no entry
\* of another user, and a user gets the busy reply only when their own job
\* handle is unresolved, whatever jobs other users have running.
C26_UsersDoNotInterfere ==
  [][\A B \in Users :
        /\ last'.user # B => EntriesOf(B)' = EntriesOf(B)
        /\ (events' = events + 1 /\ last'.user = B /\ last'.reply = "busy")
           => /\ B \in DOMAIN tasks_queue
              /\ frames[B][tasks_queue[B]].kind \in TaskKinds
              /\ frames[B][tasks_queue[B]].pc # "done"]_vars

\* one user has a carousel job running and the other has just been asked for
\* the reference image of a new request
C26_Witness ==
  \E A \in ALLOWED_USER_IDS, B \in ALLOWED_USER_IDS :
     /\ A # B
     /\ \E s \in Slots : frames[A][s].kind = "carousel" /\ frames[A][s].pc = "slides"
     /\ last.user = B /\ last.ev = "text" /\ last.reply # "busy"
     /\ Has(pending_requests, B)

\* ------------------------------------------------- terminal messages (C27)
\* the jobs: the dispatched tasks and the regenerations
JobKinds == TaskKinds \cup RegenerateSlideKinds \cup RegenerateInfographicKinds
\* the messages a job tells its end with: the failure messages and the
\* messages of a finished job (the result or the offer that follows it)
FailureMessages == {"gemini_failed", "no_slides", "infographic_failed", "post_failed",
                    "regenerate_error", "regenerate_failed"}
SuccessMessages == {"offer_regenerate", "offer_regenerate_infographic",
                    "offer_regenerate_post", "post_ready"}
TerminalMessages == FailureMessages \cup SuccessMessages
\* the step is the end of the job in frame s of u
JobEnds(u, s) ==
  /\ frames[u][s].kind \in JobKinds /\ frames[u][s].pc # "done"
  /\ frames'[u][s].pc = "done" \/ frames'[u][s].kind = "free"

\* C27: every job (carousel, infographic, post, regeneration) ends with a
\* terminal message to its user, a failure message or the message of its
\* success; no job ends without one.
C27_EveryJobEndsWithMessage ==
  [][\A u \in Users, s \in Slots :
        JobEnds(u, s) => last'.user = u /\ last'.reply \in TerminalMessages]_vars

\* ------------------------------------------------ generation attempts (C28)
\* the number of generation tasks that answers allow: up to the first image
\* URL, or all image_gen_max_retries of them when no answer is an image URL
AttemptsAllowed(answers) ==
  IF Generated(answers)
  THEN CHOOSE k \in DOMAIN answers :
         answers[k] = "url" /\ \A j \in 1 .. k - 1 : answers[j] # "url"
  ELSE image_gen_max_retries
\* the step is the generation of a slide by the carousel job in frame s of u,
\* the image backend answering with answers
SlideGenerated(u, s, answers) ==
  /\ frames[u][s].kind = "carousel" /\ frames[u][s].pc = "slides"
  /\ last'.reply \in {"slide_sent", "slide_failed"}
  /\ \E probe \in BOOLEAN :
        Apply(carousel_slide(Cur, u, s, [probe |-> probe, answers |-> answers]))
\* the step is the generation of a slide by the regeneration in frame s of u
SlideRegenerated(u, s, answers) ==
  /\ frames[u][s].kind \in RegenerateSlideKinds /\ frames[u][s].pc = "gen"
  /\ Apply(regenerate_slide_finish(Cur, u, s, answers))

\* C28: for each slide of a carousel job and for each slide regeneration the
\* image backend is asked to create at most image_gen_max_retries generation
\* tasks, and none after the first one that returned an image URL.
C28_AttemptsBoundedStopAtFirstUrl ==
  [][\A u \in Users, s \in Slots, answers \in AttemptAnswers :
        (SlideGenerated(u, s, answers) \/ SlideRegenerated(u, s, answers))
        => /\ last'.attempts \in 1 .. image_gen_max_retries
           /\ last'.attempts = AttemptsAllowed(answers)
           /\ last'.attempts < image_gen_max_retries
              => last'.reply \notin {"slide_failed", "regenerate_failed"}]_vars
\* a slide of a carousel was just sent, generated at the last allowed attempt
\* after the attempts before it had failed
C28_Witness ==
  \E u \in Users, s \in Slots :
     /\ frames[u][s].kind = "carousel"
     /\ last.user = u /\ last.ev = "job" /\ last.reply = "slide_sent"
     /\ last.attempts = image_gen_max_retries

\* ---------------------------------------------------------------------------
\* The record of a carousel.  RecordSpec starts where the slide loop of a
\* carousel job of PostUser has ended, for every slide count the bot accepts,
\* and explores the creation of the record and the reads of its prompts.
\* ---------------------------------------------------------------------------
\* the carousel job of PostUser for n slides (background configured, topic and
\* photo received, the count accepted, the job started) waits for the
\* structure generator
JobAwaitingStructure(n) ==
  [background_image2_url |-> BgUrl,
   tasks_queue |-> Put(EmptyDict, PostUser, 1),
   pending_requests |-> EmptyDict,
   waiting_for_infographic |-> EmptyDict,
   waiting_for_post |-> EmptyDict,
   waiting_for_post_topic |-> EmptyDict,
   carousel_data_storage |-> EmptyDict,
   user_mode |-> EmptyDict,
   regeneration_context |-> EmptyDict,
   waiting_for_regenerate_decision |-> EmptyDict,
   waiting_for_slide_number |-> EmptyDict,
   waiting_for_edited_prompt |-> EmptyDict,
   waiting_for_airtable_update |-> EmptyDict,
   waiting_for_infographic_regenerate_decision |-> EmptyDict,
   waiting_for_infographic_airtable_update |-> EmptyDict,
   waiting_for_edited_infographic_prompt |-> EmptyDict,
   waiting_for_post_regenerate_decision |-> EmptyDict,
   waiting_for_post_airtable_update |-> EmptyDict,
   frames |-> [u \in Users |-> [s \in Slots |->
                 IF u = PostUser /\ s = 1
                 THEN [Frame("carousel", "gemini") EXCEPT
                         !.topic = "T1", !.image1_url = ImgUrl, !.slides_count = n]
                 ELSE NoFrame]],
   last |-> Said(PostUser, "job", None, None),
   events |-> 3,
   airtable |-> EmptyDict,
   overflow |-> FALSE]
\* the slide loop of the job in frame 1 of PostUser, run to its end; the
\* background is reachable and the image backend answers with an image URL at once, but for the slides in
\* failed, for which every attempt ends with an exception
RECURSIVE SlideLoop(_, _)
SlideLoop(S, failed) ==
  IF S.frames[PostUser][1].pc # "slides" THEN S
  ELSE LET slide_num == Head(S.frames[PostUser][1].slides)
           answers == [k \in 1 .. image_gen_max_retries |->
                         IF slide_num \in failed THEN "error" ELSE "url"]
       IN SlideLoop(carousel_slide(S, PostUser, 1, [probe |-> TRUE, answers |-> answers]),
                    failed)
\* the variables have the values of the snapshot S
IsState(S) ==
  /\ background_image2_url = S.background_image2_url
  /\ tasks_queue = S.tasks_queue
  /\ pending_requests = S.pending_requests
  /\ waiting_for_infographic = S.waiting_for_infographic
  /\ waiting_for_post = S.waiting_for_post
  /\ waiting_for_post_topic = S.waiting_for_post_topic
  /\ carousel_data_storage = S.carousel_data_storage
  /\ user_mode = S.user_mode
  /\ regeneration_context = S.regeneration_context
  /\ waiting_for_regenerate_decision = S.waiting_for_regenerate_decision
  /\ waiting_for_slide_number = S.waiting_for_slide_number
  /\ waiting_for_edited_prompt = S.waiting_for_edited_prompt
  /\ waiting_for_airtable_update = S.waiting_for_airtable_update
  /\ waiting_for_infographic_regenerate_decision = S.waiting_for_infographic_regenerate_decision
  /\ waiting_for_infographic_airtable_update = S.waiting_for_infographic_airtable_update
  /\ waiting_for_edited_infographic_prompt = S.waiting_for_edited_infographic_prompt
  /\ waiting_for_post_regenerate_decision = S.waiting_for_post_regenerate_decision
  /\ waiting_for_post_airtable_update = S.waiting_for_post_airtable_update
  /\ frames = S.frames
  /\ last = S.last
  /\ events = S.events
  /\ airtable = S.airtable
\* the state after the loop of a job of n slides, for every count n that
\* slide_count accepts: the structure holds the slides 1..n, and every
\* generation attempt fails for no slide or for one of the slides
RecordInit ==
  \E n \in MinSlides .. MaxSlides : \E failed \in {{}} \cup {{k} : k \in 1 .. n} :
     IsState(SlideLoop(carousel_structure(JobAwaitingStructure(n), PostUser, 1,
                                          [ok |-> TRUE, slides |-> WellFormed(n)]),
                       failed))

\* airtable.get_slide_prompt(record_id, slide_num) for a slide the user may
\* choose to regenerate (slide_number accepts 1..slides_count)
ReadSlidePrompt(u, slide_num) ==
  /\ RecordIdOf(Cur, u) # None
  /\ slide_num \in 1 .. regeneration_context[u].slides_count
  /\ Apply(Reply(Cur, u, "get_slide_prompt", slide_num,
                 get_slide_prompt(airtable, RecordIdOf(Cur, u), slide_num)))

RecordNext ==
  \/ CarouselFinish(PostUser, 1)
  \/ \E slide_num \in 1 .. MaxSlides : ReadSlidePrompt(PostUser, slide_num)
RecordSpec == RecordInit /\ [][RecordNext]_vars

\* C29: for every slide count N in [2,20] the record persisted after a
\* carousel job holds, by slide number, the prompt of every slide 1..N and
\* the image URL of every generated slide in 1..N, and the prompt of every
\* slide the user may choose to regenerate is read back from it.
C29_RecordHoldsEverySlide ==
  /\ \A u \in Users :
        (Has(regeneration_context, u) /\ regeneration_context[u].airtable_record_id # None)
        => LET ctx == regeneration_context[u]
               id == ctx.airtable_record_id
           IN /\ Has(airtable, id)
              /\ \A k \in 1 .. ctx.slides_count :
                    /\ Has(airtable[id].Prompt_slide, k)
                    /\ Has(ctx.slides_prompts, k)
                       => get_slide_prompt(airtable, id, k) = ctx.slides_prompts[k]
                    /\ Has(ctx.slides_images, k)
                       => /\ Has(airtable[id].Visual_slide, k)
                          /\ airtable[id].Visual_slide[k] = ctx.slides_images[k]
  /\ last.ev = "get_slide_prompt" => last.reply # None

\* ------------------------------------------------ infographic attempts (C30)
InfographicKinds == {"infographic", "infographic_standalone"}
\* the step is the end of the infographic job in frame s of u with the
\* failure message, after the image backend was asked for the image
InfographicFailureReported(u, s) ==
  /\ frames[u][s].kind \in InfographicKinds /\ frames[u][s].pc = "run"
  /\ frames'[u][s].pc = "done"
  /\ last'.user = u /\ last'.reply = "infographic_failed"
  /\ last'.attempts > 0

\* C30: both infographic jobs (after a carousel and standalone) generate the
\* image with the bounded retries of the slides: the failure is reported only
\* after image_gen_max_retries attempts have failed.
C30_InfographicRetriesBeforeFailure ==
  [][\A u \in Users, s \in Slots :
        InfographicFailureReported(u, s)
        => last'.attempts = image_gen_max_retries]_vars

\* ---------------------------------------------------------------------------
\* The service functions. Each is a function of its arguments and of what the
\* external service answers; ServiceSpec below starts with a call in `last`
\* (ev names the function, text holds the arguments) and one action per
\* function puts the result into last.reply.
\* ---------------------------------------------------------------------------

\* generate_infographic_standalone, from the tips of the document to the list
\* handed to get_infographic_image_prompt: an empty list is replaced by the
\* four placeholders, a list shorter than four is extended by
\* ["Sovet 3", "Sovet 4"][len(tips) - 2:], and tips[:4] is taken
image_prompt_tips(tips) ==
  LET \* l[a:] of a Python list: a negative start counts from the end
      From(l, a) ==
        LET start == IF a < 0 THEN (IF Len(l) + a < 0 THEN 0 ELSE Len(l) + a)
                     ELSE IF a > Len(l) THEN Len(l) ELSE a
        IN SubSeq(l, start + 1, Len(l))
      t1 == IF tips = <<>> THEN <<"Sovet 1", "Sovet 2", "Sovet 3", "Sovet 4">> ELSE tips
      t2 == IF tips = <<>> \/ Len(tips) < 4
            THEN (IF Len(t1) < 4
                  THEN t1 \o From(<<"Sovet 3", "Sovet 4">>, Len(t1) - 2)
                  ELSE t1)
            ELSE tips
  IN SubSeq(t2, 1, IF Len(t2) < 4 THEN Len(t2) ELSE 4)

ImagePromptTips ==
  /\ last.ev = "tips"
  /\ PostTextStep("image_prompt_tips", image_prompt_tips(last.text))

\* C31: in the standalone infographic pipeline, for every number k of tips the
\* structure generator returns, the list given to the image prompt has exactly
\* four entries: the returned tips (the first four of them) followed, for
\* k < 4, by placeholder tips.
C31_ImagePromptGetsFourTips ==
  last.ev = "image_prompt_tips"
  => /\ Len(last.reply) = 4
     /\ \A i \in 1 .. 4 : i <= Len(last.text) => last.reply[i] = last.text[i]

\* --------------------------------------------- GeminiService.generate_json
\* what the text generator answers to one call: a text that parses ("json"),
\* a text that parses after json_repair ("repairable"), a text that does not
\* parse even repaired ("malformed"), an empty or too short text ("empty"),
\* or an exception of the call ("error")
\* (variant: no further call after a text that cannot be parsed)
RECURSIVE generate_json_no_retry(_, _)
generate_json_no_retry(answers, attempt) ==
  IF answers[attempt] \in {"json", "repairable"}
  THEN [result |-> "document", calls |-> attempt]
  ELSE IF attempt < max_retries /\ answers[attempt] # "malformed"
  THEN generate_json_no_retry(answers, attempt + 1)
  ELSE [result |-> "RuntimeError", calls |-> attempt]

\* the loop `for attempt in range(max_retries)`, from the call number attempt
\* on: a parsed or repaired text is returned; after an empty text, a text
\* that cannot be repaired or an exception the next call is made, and on the
\* last attempt RuntimeError is raised. The result and the number of calls made.
RECURSIVE generate_json(_, _)
generate_json(answers, attempt) ==
  IF answers[attempt] \in {"json", "repairable"}
  THEN [result |-> "document", calls |-> attempt]
  ELSE IF attempt < max_retries
  THEN generate_json(answers, attempt + 1)
  ELSE [result |-> "RuntimeError", calls |-> attempt]

GenerateJson ==
  /\ last.ev = "answers"
  /\ PostTextStep("generate_json", generate_json(last.text, 1))

\* the answers that do not yield a document
FailedAnswers == {"malformed", "empty", "error"}

\* C32 as stated: a text that cannot be parsed, also after the repair pass, is
\* never retried: generate_json makes no further call to the generator after
\* it and fails at once.
C32_MalformedNeverRetried ==
  last.ev = "generate_json"
  => \A i \in 1 .. last.reply.calls :
        last.text[i] = "malformed"
        => last.reply.calls = i /\ last.reply.result = "RuntimeError"

\* C32 (amended): generate_json makes at most max_retries calls; a text that
\* cannot be parsed, also after the repair pass, is followed by a further call
\* while fewer than max_retries calls were made, like an empty text or an
\* exception; the result is the first document, and RuntimeError is raised
\* only after max_retries calls without a document.
C32_MalformedRetriedUpToMaxRetries ==
  last.ev = "generate_json"
  => LET answers == last.text
         r == last.reply
     IN /\ r.calls \in 1 .. max_retries
        /\ \A i \in 1 .. r.calls - 1 : answers[i] \in FailedAnswers
        /\ \A i \in 1 .. max_retries - 1 :
              (i <= r.calls /\ answers[i] = "malformed") => r.calls > i
        /\ r.result = "document" <=> answers[r.calls] \notin FailedAnswers
        /\ r.result = "RuntimeError" => r.calls = max_retries

\* a text that cannot be repaired was answered first, the second call
\* returned a document
C32_Witness ==
  /\ last.ev = "generate_json"
  /\ last.text[1] = "malformed"
  /\ last.reply = [result |-> "document", calls |-> 2]

\* ------------------------------------------------ the delivery of the images
\* the size limits of send_infographic_to_telegram, in bytes: 10 * 1024 * 1024
\* and 50 * 1024 * 1024
max_photo_size == 10485760
max_document_size == 52428800

\* (variant: the mark of the interior slides also on the last slide)
send_image_to_telegram_last_marked(status_ok, size, number, count) ==
  IF ~status_ok THEN [sent |-> "nothing", message |-> "download_error"]
  ELSE [sent |-> "photo", message |-> None, size |-> size,
        position |-> IF number = 1 THEN "top-left" ELSE "bottom-right",
        is_light |-> number = 1]

\* send_image_to_telegram: the image of the slide is downloaded (status_ok:
\* the download answers 200), the position and the tint of the mark follow
\* from slide_number and slides_count, add_watermark is called unless the
\* position is None, and the result goes to send_photo
send_image_to_telegram(status_ok, size, number, count) ==
  IF ~status_ok THEN [sent |-> "nothing", message |-> "download_error"]
  ELSE [sent |-> "photo", message |-> None, size |-> size,
        position |-> IF number = 1 THEN "top-left"
                     ELSE IF number < count THEN "bottom-right"
                     ELSE None,
        is_light |-> number = 1]

\* send_infographic_to_telegram: no mark; send_photo up to max_photo_size,
\* send_document up to max_document_size, beyond it only the message
send_infographic_to_telegram(status_ok, size) ==
  IF ~status_ok THEN [sent |-> "nothing", message |-> "download_error"]
  ELSE IF size <= max_photo_size
  THEN [sent |-> "photo", message |-> None, size |-> size, position |-> None, is_light |-> FALSE]
  ELSE IF size <= max_document_size
  THEN [sent |-> "document", message |-> None, size |-> size, position |-> None, is_light |-> FALSE]
  ELSE [sent |-> "nothing", message |-> "too_large"]

SendImage ==
  /\ last.ev = "slide_image"
  /\ PostTextStep("send_image_to_telegram",
                  send_image_to_telegram(last.text.status_ok, last.text.size,
                                         last.text.slide_number, last.text.slides_count))

SendInfographic ==
  /\ last.ev = "infographic_image"
  /\ PostTextStep("send_infographic_to_telegram",
                  send_infographic_to_telegram(last.text.status_ok, last.text.size))

ImageDelivered ==
  /\ last.ev \in {"send_image_to_telegram", "send_infographic_to_telegram"}
  /\ last.text.status_ok

\* C36: every outbound image of size s, slide or infographic, is sent as a
\* photo if s <= 10 MB, as a file attachment if 10 MB < s <= 50 MB, and is not
\* sent but answered with the "too large" message if s > 50 MB.
C36_DeliveryBySize ==
  ImageDelivered
  => LET s == last.text.size
         r == last.reply
     IN /\ s <= max_photo_size => r.sent = "photo"
        /\ (max_photo_size < s /\ s <= max_document_size) => r.sent = "document"
        /\ s > max_document_size => r.sent = "nothing" /\ r.message = "too_large"

\* ------------------------------------------ ImageGenService.wait_for_result
\* the defaults of wait_for_result, in seconds
max_wait_time == 300
poll_interval == 3

\* (variant: a success without URLs returns the empty list)
wait_for_result_returns_empty(elapsed, state, took) ==
  IF elapsed > max_wait_time
  THEN [ev |-> "wait_for_result_done",
        reply |-> [result |-> "NanaBananaProTimeoutError", urls |-> <<>>,
                   state |-> None, elapsed |-> elapsed]]
  ELSE IF state \in {"success", "success_no_urls"}
  THEN [ev |-> "wait_for_result_done",
        reply |-> [result |-> "urls", urls |-> IF state = "success" THEN <<ImgUrl>> ELSE <<>>,
                   state |-> state, elapsed |-> elapsed]]
  ELSE IF state \in {"fail", "request_error"}
  THEN [ev |-> "wait_for_result_done",
        reply |-> [result |-> "RuntimeError", urls |-> <<>>, state |-> state,
                   elapsed |-> elapsed]]
  ELSE [ev |-> "wait_for_result",
        reply |-> [elapsed |-> elapsed + took + poll_interval]]

\* one turn of the loop `while True`, elapsed seconds after the start: the
\* timeout is raised when elapsed > max_wait_time; else the status is asked
\* for (the request takes `took` seconds): "success" with URLs returns them,
\* a success with an empty resultJson or without resultUrls, "fail" and a
\* failed request raise RuntimeError, any other state is followed by
\* asyncio.sleep(poll_interval) and the next turn
wait_for_result(elapsed, state, took) ==
  IF elapsed > max_wait_time
  THEN [ev |-> "wait_for_result_done",
        reply |-> [result |-> "NanaBananaProTimeoutError", urls |-> <<>>,
                   state |-> None, elapsed |-> elapsed]]
  ELSE IF state = "success"
  THEN [ev |-> "wait_for_result_done",
        reply |-> [result |-> "urls", urls |-> <<ImgUrl>>, state |-> state,
                   elapsed |-> elapsed]]
  ELSE IF state \in {"success_no_urls", "fail", "request_error"}
  THEN [ev |-> "wait_for_result_done",
        reply |-> [result |-> "RuntimeError", urls |-> <<>>, state |-> state,
                   elapsed |-> elapsed]]
  ELSE [ev |-> "wait_for_result",
        reply |-> [elapsed |-> elapsed + took + poll_interval]]

\* the states a status request answers with ("generating" stands for every
\* state that is neither success nor fail), and the seconds a request takes
\* (the HTTP client gives up after 60)
Poll ==
  /\ last.ev = "wait_for_result"
  /\ \E state \in {"success", "success_no_urls", "fail", "request_error", "generating"},
        took \in {0, 1, 60} :
        LET turn == wait_for_result(last.reply.elapsed, state, took)
        IN PostTextStep(turn.ev, turn.reply)

\* C35: wait_for_result terminates for every sequence of statuses the image
\* backend reports: it returns a non-empty list of URLs on a success, raises
\* a failure on a fail status or a success without URL, raises the timeout
\* error once more than max_wait_time has elapsed while the job is pending;
\* it never polls forever.
C35_WaitForResultTerminates ==
  /\ [](last.ev = "wait_for_result_done"
        => LET r == last.reply
           IN /\ r.result \in {"urls", "RuntimeError", "NanaBananaProTimeoutError"}
              /\ r.result = "urls" <=> r.state = "success"
              /\ r.result = "urls" => r.urls # <<>>
              /\ r.state \in {"fail", "success_no_urls"} => r.result = "RuntimeError"
              /\ r.result = "NanaBananaProTimeoutError" <=> r.elapsed > max_wait_time)
  /\ [](last.ev = "wait_for_result" => last.reply.elapsed <= max_wait_time + poll_interval + 60)
  /\ (last.ev = "wait_for_result") ~> (last.ev = "wait_for_result_done")

\* the job stayed pending until the timeout was raised
C35_Witness ==
  /\ last.ev = "wait_for_result_done"
  /\ last.reply.result = "NanaBananaProTimeoutError"
  /\ last.reply.elapsed > max_wait_time

\* ------------------------------------------- the cached background reference
\* save_background_urls: the content of background_urls.json after the call
save_background_urls(url1, url2) ==
  [exists |-> TRUE, image1_url |-> url1, image2_url |-> url2]

\* load_background_urls: None (the empty tuple here) without the file and
\* unless both URLs of the file are non-empty, else the pair
load_background_urls(file) ==
  IF ~file.exists THEN <<>>
  ELSE IF file.image1_url # "" /\ file.image2_url # ""
  THEN <<file.image1_url, file.image2_url>>
  ELSE <<>>

\* main() of main.py, the part after the menu commands: the saved URL is
\* used if load_background_urls returns a pair, else with an admin chat
\* upload_backgrounds_on_startup uploads the image (upload_ok), sets the
\* reference and saves it. The reply tells the file found, whether there was
\* an upload, and the file left.
main(S, file, admin_chat_id, upload_ok) ==
  LET saved_urls == load_background_urls(file)
  IN IF saved_urls # <<>>
     THEN Reply(IF saved_urls[2] # "" THEN set_background_urls(S, saved_urls[2]) ELSE S,
                PostUser, "main", S.last.text,
                [cache |-> file, uploaded |-> FALSE, file |-> file])
     ELSE IF admin_chat_id /\ upload_ok
     THEN Reply(set_background_urls(S, "fresh_url"),
                PostUser, "main", S.last.text,
                [cache |-> file, uploaded |-> TRUE,
                 file |-> save_background_urls("", "fresh_url")])
     ELSE Reply(S, PostUser, "main", S.last.text,
                [cache |-> file, uploaded |-> FALSE, file |-> file])

\* upload_backgrounds_command and upload_backgrounds_on_startup after the
\* upload that gave the URL last.text.url: save_background_urls("", url2)
SaveBackground ==
  /\ last.ev = "background_url"
  /\ PostTextStep("background_saved", save_background_urls("", last.text.url))

\* the next start of the process: the reference is unset, main runs with
\* the file the last run left (none before the first save)
Startup ==
  /\ last.ev \in {"background_saved", "no_background_file"}
  /\ Apply(main(Cur,
                     IF last.ev = "background_saved" THEN last.reply
                     ELSE [exists |-> FALSE, image1_url |-> "", image2_url |-> ""],
                     last.text.admin_chat_id, last.text.upload_ok))

\* C37: the round trip of the cached background reference: after the admin
\* action or the startup upload saved the URL u, loading the cache at the
\* next start returns u, and the global background reference is set to u
\* without a fresh upload.
C37_CachedBackgroundRoundTrip ==
  (last.ev = "main" /\ last.reply.cache.exists)
  => /\ load_background_urls(last.reply.cache) # <<>>
     /\ background_image2_url = last.reply.cache.image2_url
     /\ ~last.reply.uploaded

\* ---------------------------------------------------------------------------
\* The conversations around a second job of one user. LaterSpec follows one
\* allowed user who does not wait for the coroutines in flight, from the
\* start of the bot or from the state in which a carousel of that user has
\* ended and every offer made after it was declined, for at most
\* MaxLaterEvents updates.
\* ---------------------------------------------------------------------------
LaterInit ==
  \/ Init
  \/ \E created \in BOOLEAN :
        LET finished ==
              carousel_finish(
                SlideLoop(carousel_structure(JobAwaitingStructure(MinSlides), PostUser, 1,
                                             [ok |-> TRUE, slides |-> WellFormed(MinSlides)]),
                          {}),
                PostUser, 1, created)
        IN IsState([finished EXCEPT
                      !.frames[PostUser][1] = NoFrame,
                      !.tasks_queue = EmptyDict,
                      !.waiting_for_regenerate_decision = EmptyDict,
                      !.carousel_data_storage = EmptyDict,
                      !.last = Said(PostUser, "text", "no", "ok_no_more"),
                      !.events = 2])

LaterNext ==
  LET LaterEvent(n) == events < MaxLaterEvents /\ Apply([n EXCEPT !.events = @ + 1])
  IN \/ \E text \in {"2", "Yes", "+", BtnInfographic}, out \in {"prompt"} :
          LaterEvent(handle_message(Cur, PostUser, text, out))
     \/ LaterEvent(handle_photo(Cur, PostUser))
     \/ \E s \in Slots : PhotoResume(PostUser, s, "url")
     \/ \E s \in Slots : AfterReply(PostUser, s)
     \/ \E s \in Slots : TaskDone(PostUser, s)
     \/ \E s \in Slots : CarouselStart(PostUser, s)
     \/ \E s \in Slots : CarouselStructure(PostUser, s)
     \/ \E s \in Slots : CarouselSlide(PostUser, s)
     \/ \E s \in Slots : CarouselFinish(PostUser, s)
     \/ \E s \in Slots : InfographicStandalone(PostUser, s)
     \/ \E s \in Slots : RegenerateInfographicFinish(PostUser, s)

LaterSpec == LaterInit /\ [][LaterNext]_vars

InfographicRegenerationAccepted(u) ==
  /\ Has(waiting_for_infographic_regenerate_decision, u)
  /\ ~Has(waiting_for_regenerate_decision, u) /\ ~Has(waiting_for_slide_number, u)
  /\ ~Has(waiting_for_airtable_update, u) /\ ~Has(waiting_for_edited_prompt, u)
  /\ last'.user = u /\ last'.ev = "text" /\ IsYes(last'.text)
  /\ last'.reply \in {"edit_in_airtable", "send_edited_prompt", "no_infographic_prompt"}

\* C40: the regeneration of a standalone infographic never touches a record
\* created by an earlier carousel job: after a standalone infographic job the
\* answer yes to the regeneration offer leads to the state that awaits the
\* edited prompt (the prompt kept in the context was sent), never to the
\* state that awaits "+" after an edit in the record of a carousel. (In
\* LaterSpec every infographic was made by a standalone job.)
C40_StandaloneInfographicRegeneratesInline ==
  [][\A u \in Users :
        InfographicRegenerationAccepted(u)
        => /\ last'.reply = "send_edited_prompt"
           /\ Has(waiting_for_edited_infographic_prompt', u)
           /\ ~Has(waiting_for_infographic_airtable_update', u)]_vars

\* the step is the start of the carousel job in frame s of u
CarouselJobStarts(u, s) ==
  /\ frames[u][s].kind = "carousel" /\ frames[u][s].pc = "start"
  /\ frames'[u][s].pc = "gemini"

FairLaterSpec ==
  /\ LaterSpec
  /\ \A s \in Slots :
        /\ WF_vars(AfterReply(PostUser, s))
        /\ WF_vars(TaskDone(PostUser, s))
        /\ WF_vars(CarouselStart(PostUser, s))
        /\ WF_vars(CarouselStructure(PostUser, s))
        /\ WF_vars(CarouselSlide(PostUser, s))
        /\ WF_vars(CarouselFinish(PostUser, s))
        /\ WF_vars(InfographicStandalone(PostUser, s))

\* the job in frame s of u was dispatched through tasks_queue and runs
JobDispatched(u, s) ==
  frames[u][s].kind \in TaskKinds /\ frames[u][s].pc \notin {"reply", "done"}
\* the job in frame s of u has resolved: the task is done
JobResolved(u, s) == frames[u][s].pc = "done"

ServiceInit ==
  LET \* the sizes of a downloaded image: around the two limits
      ImageSizes == {1, max_photo_size, max_photo_size + 1,
                     max_document_size, max_document_size + 1}
  IN
  /\ background_image2_url = None
  /\ tasks_queue = EmptyDict
  /\ airtable = EmptyDict
  /\ pending_requests = EmptyDict
  /\ waiting_for_infographic = EmptyDict
  /\ waiting_for_post = EmptyDict
  /\ waiting_for_post_topic = EmptyDict
  /\ carousel_data_storage = EmptyDict
  /\ user_mode = EmptyDict
  /\ regeneration_context = EmptyDict
  /\ waiting_for_regenerate_decision = EmptyDict
  /\ waiting_for_slide_number = EmptyDict
  /\ waiting_for_edited_prompt = EmptyDict
  /\ waiting_for_airtable_update = EmptyDict
  /\ waiting_for_infographic_regenerate_decision = EmptyDict
  /\ waiting_for_infographic_airtable_update = EmptyDict
  /\ waiting_for_edited_infographic_prompt = EmptyDict
  /\ waiting_for_post_regenerate_decision = EmptyDict
  /\ waiting_for_post_airtable_update = EmptyDict
  /\ frames = [u \in Users |-> [s \in Slots |-> NoFrame]]
  /\ events = 0
  /\ \/ \E k \in 0 .. MaxTips :
          last = Said(PostUser, "tips", [i \in 1 .. k |-> "tip" \o ToString(i)], None)
     \/ \E answers \in [1 .. max_retries -> {"json", "repairable", "malformed", "empty", "error"}] :
          last = Said(PostUser, "answers", answers, None)
     \/ \E status_ok \in BOOLEAN, size \in ImageSizes, count \in MinSlides .. MaxSlides :
          \E number \in 1 .. count + 1 :
             last = Said(PostUser, "slide_image",
                         [status_ok |-> status_ok, size |-> size,
                          slide_number |-> number, slides_count |-> count], None)
     \/ \E status_ok \in BOOLEAN, size \in ImageSizes :
          last = Said(PostUser, "infographic_image", [status_ok |-> status_ok, size |-> size], None)
     \/ \E ev \in {"background_url", "no_background_file"}, admin_chat_id, upload_ok \in BOOLEAN :
          last = Said(PostUser, ev,
                      [url |-> BgUrl, admin_chat_id |-> admin_chat_id, upload_ok |-> upload_ok], None)
     \/ last = Said(PostUser, "wait_for_result", "task_id", [elapsed |-> 0])

ServiceNext ==
  \/ ImagePromptTips
  \/ GenerateJson
  \/ SendImage
  \/ SendInfographic
  \/ SaveBackground
  \/ Startup
  \/ Poll

ServiceSpec == ServiceInit /\ [][ServiceNext]_vars

\* ServiceSpec with the scheduling of the event loop: the coroutine in
\* wait_for_result is resumed after each status request (which the HTTP
\* client bounds by its timeout) and after each sleep
FairServiceSpec == ServiceSpec /\ WF_vars(Poll)

====
